---- MODULE Spec2Model ----
(***************************************************************************)
(* A model of the VRM importer's loader (io_scene_vrm/importer/vrm_load.py):*)
(* the GLB container demuxer parse_glb, the accessor decoder decode_bin,    *)
(* the license gate validate_license, read_vrm with material_read, the      *)
(* import operators of __init__.py, mesh_read, skin_read and vrm_dict_diff. *)
(* Each component has its own specification (SpecGlb, SpecDecode,           *)
(* SpecLicense, SpecRead, SpecImport, SpecMesh, SpecDiff, SpecSkin); the    *)
(* variables of the other components stay at their idle values.             *)
(***************************************************************************)
EXTENDS Integers, Sequences, FiniteSets, TLC

VARIABLES
    data,        \* parse_glb: the file, a sequence of 4-byte words
    pos,         \* parse_glb: BinaryReader.pos, in bytes
    size,        \* parse_glb: the remaining-length counter
    json_str,    \* parse_glb: Optional[str], [some, v]
    body,        \* parse_glb: Optional[bytes], [some, v]
    gpc,         \* parse_glb: position in the function
    gresult,     \* parse_glb: what the call ended with
    ghist,       \* parse_glb: history of what the run has read (observation only)
    accessors,       \* decode_bin: json_data["accessors"]
    buffer_views,    \* decode_bin: json_data["bufferViews"]
    binary,          \* decode_bin: the binary payload, a sequence of bytes
    br_pos,          \* decode_bin: br.pos
    decoded_binary,  \* decode_bin: the list being built
    accessor_index,  \* decode_bin: the loop index (0-based)
    dresult,         \* decode_bin: "idle", "running", "ok" or the error raised
    meta,            \* validate_license: json["extensions"]["VRM"]["meta"]
    license_name,    \* validate_license: license_name
    confirmations,   \* validate_license: confirmations
    lpc,             \* validate_license: position in the function
    lresult,         \* validate_license: how the call ended
    lhist,           \* validate_license: what each check did (observation only)
    model_file,      \* read_vrm: what parse_glb makes of the file at model_path
    license_check,   \* read_vrm: the license_check argument
    vrm_pydata,      \* read_vrm: the VrmPydata object
    rpc,             \* read_vrm: position in the function
    rresult,         \* read_vrm: how the call ended
    rhist,           \* read_vrm: the steps taken (observation only)
    environ,            \* import: BLENDER_VRM_AUTOMATIC_LICENSE_CONFIRMATION
    execution_context,  \* ImportVRM.execute: execution_context
    import_anyway,      \* WM_OT_licenseConfirmation.import_anyway
    ipc,                \* import: position in the operators
    iresult,            \* import: what the operator returned
    ihist,              \* import: reads, confirmation and builds (observation only)
    mesh_json,              \* mesh_read: vrm_pydata.json (generator and meshes)
    pydata_decoded_binary,  \* mesh_read: vrm_pydata.decoded_binary
    pydata_meshes,          \* mesh_read: vrm_pydata.meshes
    mesh_primitives,        \* mesh_read: primitives
    mesh_n,                 \* mesh_read: n
    prim_j,                 \* mesh_read: j
    mresult,                \* mesh_read: how the call ended
    mhist,                  \* mesh_read: accessors resolved and attached (observation only)
    left_dict,        \* vrm_dict_diff: left
    right_dict,       \* vrm_dict_diff: right
    float_tolerance,  \* vrm_dict_diff: float_tolerance, in tenths
    dpc,              \* vrm_dict_diff: called or not
    diff_result,      \* vrm_dict_diff: the list returned, or the exception
    skins_json,             \* skin_read: vrm_pydata.json.get("skins")
    skins_joints_list,      \* skin_read: vrm_pydata.skins_joints_list
    skins_root_node_list,   \* skin_read: vrm_pydata.skins_root_node_list
    skin_i,                 \* skin_read: the number of skins gone through
    spc                     \* skin_read: "idle", "running" or "done"

glbVars == <<data, pos, size, json_str, body, gpc, gresult, ghist>>
decVars == <<accessors, buffer_views, binary, br_pos, decoded_binary, accessor_index, dresult>>

licVars == <<meta, license_name, confirmations, lpc, lresult, lhist>>

rdVars == <<model_file, license_check, vrm_pydata, rpc, rresult, rhist>>
impVars == <<environ, execution_context, import_anyway, ipc, iresult, ihist>>
meshVars == <<mesh_json, pydata_decoded_binary, pydata_meshes, mesh_primitives,
              mesh_n, prim_j, mresult, mhist>>
diffVars == <<left_dict, right_dict, float_tolerance, dpc, diff_result>>
skinVars == <<skins_json, skins_joints_list, skins_root_node_list, skin_i, spc>>

vars == <<glbVars, decVars, licVars, rdVars, impVars, meshVars, diffVars, skinVars>>

notGlbVars == <<decVars, licVars, rdVars, impVars, meshVars, diffVars, skinVars>>
notDecVars == <<glbVars, licVars, rdVars, impVars, meshVars, diffVars, skinVars>>
notLicVars == <<glbVars, decVars, rdVars, impVars, meshVars, diffVars, skinVars>>
notReadVars == <<glbVars, decVars, licVars, impVars, meshVars, diffVars, skinVars>>
notMeshVars == <<glbVars, decVars, licVars, rdVars, impVars, diffVars, skinVars>>
notDiffVars == <<glbVars, decVars, licVars, rdVars, impVars, meshVars, skinVars>>
notSkinVars == <<glbVars, decVars, licVars, rdVars, impVars, meshVars, diffVars>>

-----------------------------------------------------------------------------
(* Bounds of the model *)

\* the largest number of chunks a generated container holds
MaxChunks == 3
\* the largest number of accessors a generated document holds
MaxAccessors == 2
\* the longest license name enumerated over NameAlphabet
MaxNameLen == 4

-----------------------------------------------------------------------------
(* The container: a sequence of 4-byte words.  A word read as an unsigned   *)
(* int is w.u, read as a 4-character string it is w.s.  Every word of the   *)
(* generated containers is valid UTF-8 text and every chunk is a whole      *)
(* number of words; a container may lack its last word (a truncated file).  *)

HEADER_SIZE == 12

NumWord(n) == [u |-> n, s |-> "#"]
StrWord(t) == [u |-> 0, s |-> t]

None == [some |-> FALSE, v |-> <<>>]
Some(x) == [some |-> TRUE, v |-> x]

\* the bytes of one chunk record: u32 length, 4-byte tag, payload
ChunkWords(c) == <<NumWord(4 * Len(c.payload)), StrWord(c.type)>> \o [i \in 1..Len(c.payload) |-> StrWord(c.payload[i])]

RECURSIVE Flatten(_)
Flatten(cs) == IF cs = <<>> THEN <<>> ELSE ChunkWords(Head(cs)) \o Flatten(Tail(cs))

\* the chunk records the generated containers are made of
JsonPayloads == { <<>>, <<"{}  ">>, <<"{\"a\"", ":1} ">>, <<"[1] ">>, <<"nope">> }
BinPayloads == { <<>>, <<"BBBB">> }
ChunkSet ==
    [type : {"JSON"}, payload : JsonPayloads]
    \cup [type : {"BIN0"}, payload : BinPayloads]
    \cup [type : {"XXXX"}, payload : {<<"BBBB">>}]

RECURSIVE SeqsUpTo(_, _)
SeqsUpTo(S, n) ==
    IF n = 0 THEN {<<>>}
    ELSE LET shorter == SeqsUpTo(S, n - 1)
         IN shorter \cup {Append(p, x) : p \in {q \in shorter : Len(q) = n - 1}, x \in S}

\* the bytes the chunk records of cs occupy
ChunkBytes(cs) == 4 * Len(Flatten(cs))

\* the declared total lengths tried for a container whose chunks are cs:
\* the exact one, ones that fall short of the chunks, ones that exceed them
DeclaredLengths(cs) ==
    {0, HEADER_SIZE, HEADER_SIZE + 1, HEADER_SIZE + 8,
     HEADER_SIZE + ChunkBytes(cs), HEADER_SIZE + ChunkBytes(cs) + 4}

Container(magic, version, declared, cs) ==
    <<StrWord(magic), NumWord(version), NumWord(declared)>> \o Flatten(cs)

\* json.loads(..., object_pairs_hook=OrderedDict) on the texts of JsonPayloads:
\* an object becomes its ordered key/value pairs, "[1] " is a list, "nope" raises
json_loads(text) ==
    CASE text = <<"{}  ">> -> [raises |-> FALSE, isdict |-> TRUE, val |-> <<>>]
      [] text = <<"{\"a\"", ":1} ">> -> [raises |-> FALSE, isdict |-> TRUE, val |-> << <<"a", 1>> >>]
      [] text = <<"[1] ">> -> [raises |-> FALSE, isdict |-> FALSE, val |-> <<>>]
      [] OTHER -> [raises |-> TRUE, isdict |-> FALSE, val |-> <<>>]

-----------------------------------------------------------------------------
(* BinaryReader over data (io_scene_vrm/importer/binary_reader.py)          *)

DataBytes == 4 * Len(data)
CanRead(p, n) == p + n <= DataBytes
WordAt(p) == data[(p \div 4) + 1]
\* read_binary(n) at p: the n \div 4 words from p on
BytesAt(p, n) == [i \in 1..(n \div 4) |-> WordAt(p + 4 * (i - 1)).s]

-----------------------------------------------------------------------------
(* parse_glb *)

NoResult == [kind |-> "none", err |-> "", json |-> <<>>, body |-> <<>>]
Raise(e) == [kind |-> "error", err |-> e, json |-> <<>>, body |-> <<>>]
Return(j, b) == [kind |-> "ok", err |-> "", json |-> j, body |-> b]

NoHist == [chunkReads |-> 0, nJson |-> 0, nBin |-> 0, consumed |-> 0,
           declared |-> -1, jsonParsed |-> FALSE, jsonFrom |-> 0]

GlbIdle ==
    /\ data = <<>> /\ pos = 0 /\ size = 0 /\ json_str = None /\ body = None
    /\ gpc = "idle" /\ gresult = NoResult /\ ghist = NoHist

GlbStart ==
    /\ \E magic \in {"glTF", "glTX"}, version \in {1, 2}, cs \in SeqsUpTo(ChunkSet, MaxChunks) :
         \E declared \in DeclaredLengths(cs), cut \in {0, 1} :
            LET whole == Container(magic, version, declared, cs)
            IN data = SubSeq(whole, 1, Len(whole) - cut)
    /\ pos = 0
    /\ size = 0
    /\ json_str = None
    /\ body = None
    /\ gpc = "magic"
    /\ gresult = NoResult
    /\ ghist = NoHist

GlbFail(e) ==
    /\ gpc' = "done"
    /\ gresult' = Raise(e)

\* lines 68-71: magic = reader.read_str(4)
GlbReadMagic ==
    /\ gpc = "magic"
    /\ IF ~CanRead(pos, 4)
       THEN GlbFail("OutOfBounds") /\ UNCHANGED pos
       ELSE /\ pos' = pos + 4
            /\ IF WordAt(pos).s # "glTF"
               THEN GlbFail("signature")
               ELSE gpc' = "version" /\ UNCHANGED gresult
    /\ UNCHANGED <<data, size, json_str, body, ghist>>
    /\ UNCHANGED notGlbVars

\* a plausible slip: the version is read and never compared
VersionUnchecked(version) == TRUE

\* line 74: if version != 2: raise
VersionSupported(version) == version = 2

\* lines 73-77: version = reader.read_as_data_type(UNSIGNED_INT)
GlbReadVersion ==
    /\ gpc = "version"
    /\ IF ~CanRead(pos, 4)
       THEN GlbFail("OutOfBounds") /\ UNCHANGED pos
       ELSE /\ pos' = pos + 4
            /\ IF ~VersionSupported(WordAt(pos).u)
               THEN GlbFail("version")
               ELSE gpc' = "size" /\ UNCHANGED gresult
    /\ UNCHANGED <<data, size, json_str, body, ghist>>
    /\ UNCHANGED notGlbVars

\* lines 79-83: size = reader.read_as_data_type(UNSIGNED_INT); size -= 12
GlbReadSize ==
    /\ gpc = "size"
    /\ IF ~CanRead(pos, 4)
       THEN GlbFail("OutOfBounds") /\ UNCHANGED <<pos, size, ghist>>
       ELSE /\ pos' = pos + 4
            /\ size' = WordAt(pos).u - HEADER_SIZE
            /\ ghist' = [ghist EXCEPT !.declared = WordAt(pos).u]
            /\ gpc' = "loop"
            /\ UNCHANGED gresult
    /\ UNCHANGED <<data, json_str, body>>
    /\ UNCHANGED notGlbVars

\* lines 87-90: the guard at the head of each iteration
MultipleChunks == json_str.some /\ body.some

\* lines 84-108: the test of the while loop and one iteration of its body
GlbChunk ==
    /\ gpc = "loop"
    /\ IF ~(size > 0)
       THEN /\ gpc' = "finish"
            /\ UNCHANGED <<pos, size, json_str, body, gresult, ghist>>
       ELSE IF MultipleChunks
       THEN /\ GlbFail("multiple chunks")
            /\ UNCHANGED <<pos, size, json_str, body, ghist>>
       ELSE IF ~CanRead(pos, 4)
       THEN /\ GlbFail("OutOfBounds")
            /\ UNCHANGED <<pos, size, json_str, body, ghist>>
       ELSE LET chunk_size == WordAt(pos).u
                started == [ghist EXCEPT !.chunkReads = @ + 1]
            IN IF ~CanRead(pos + 4, 4)
               THEN /\ GlbFail("OutOfBounds")
                    /\ pos' = pos + 4
                    /\ size' = size - 4
                    /\ ghist' = started
                    /\ UNCHANGED <<json_str, body>>
               ELSE LET chunk_type == WordAt(pos + 4).s
                    IN IF ~CanRead(pos + 8, chunk_size)
                       THEN /\ GlbFail("OutOfBounds")
                            /\ pos' = pos + 8
                            /\ size' = size - 8
                            /\ ghist' = started
                            /\ UNCHANGED <<json_str, body>>
                       ELSE LET chunk_data == BytesAt(pos + 8, chunk_size)
                                read == [started EXCEPT !.consumed = @ + 8 + chunk_size]
                            IN /\ pos' = pos + 8 + chunk_size
                               /\ size' = size - 8 - chunk_size
                               /\ CASE chunk_type = "BIN0" ->
                                         /\ body' = Some(chunk_data)
                                         /\ ghist' = [read EXCEPT !.nBin = @ + 1]
                                         /\ UNCHANGED <<json_str, gpc, gresult>>
                                    [] chunk_type = "JSON" ->
                                         /\ json_str' = Some(chunk_data)
                                         /\ ghist' = [read EXCEPT !.nJson = @ + 1,
                                                                  !.jsonFrom = read.chunkReads]
                                         /\ UNCHANGED <<body, gpc, gresult>>
                                    [] OTHER ->
                                         /\ GlbFail("unknown chunk_type")
                                         /\ ghist' = read
                                         /\ UNCHANGED <<json_str, body>>
    /\ UNCHANGED data
    /\ UNCHANGED notGlbVars

\* a plausible slip: a container without a binary chunk is refused
FinishResultBinRequired ==
    IF ~json_str.some \/ json_str.v = <<>> THEN Raise("failed to read json chunk")
    ELSE LET json_obj == json_loads(json_str.v)
         IN IF json_obj.raises THEN Raise("JSONDecodeError")
            ELSE IF ~json_obj.isdict THEN Raise("invalid json")
            ELSE IF ~body.some THEN Raise("failed to read bin chunk")
            ELSE Return(json_obj.val, body.v)

\* lines 110-116: what parse_glb ends with once the loop is over
FinishResult ==
    IF ~json_str.some \/ json_str.v = <<>> THEN Raise("failed to read json chunk")
    ELSE LET json_obj == json_loads(json_str.v)
         IN IF json_obj.raises THEN Raise("JSONDecodeError")
            ELSE IF ~json_obj.isdict THEN Raise("invalid json")
            ELSE Return(json_obj.val, IF body.some /\ body.v # <<>> THEN body.v ELSE <<>>)

\* lines 110-116: after the loop
GlbFinish ==
    /\ gpc = "finish"
    /\ gpc' = "done"
    /\ gresult' = FinishResult
    /\ ghist' = [ghist EXCEPT !.jsonParsed = json_str.some /\ json_str.v # <<>>]
    /\ UNCHANGED <<data, pos, size, json_str, body>>
    /\ UNCHANGED notGlbVars

GlbNext == GlbReadMagic \/ GlbReadVersion \/ GlbReadSize \/ GlbChunk \/ GlbFinish

-----------------------------------------------------------------------------
(* decode_bin *)

\* GlConstants component types and the bytes BinaryReader.read_as_data_type
\* reads for each
UNSIGNED_BYTE == 5121
UNSIGNED_SHORT == 5123
ComponentWidth(component_type) == IF component_type = UNSIGNED_BYTE THEN 1 ELSE 2

\* the payload's byte at offset i (0-based): a fixed pattern of distinct bytes
ByteAt(i) == (i * 37 + 11) % 256
BinaryOfLen(n) == [i \in 1..n |-> ByteAt(i - 1)]
BinaryLengths == {5, 40}

\* an accessor of the JSON document; bufferView = -1 stands for the key being absent
AccessorTypes == {"SCALAR", "VEC2", "VEC3", "VEC4", "MAT4", "MAT3"}
AccessorCounts == {0, 2}
\* the accessors of one generated document share their component type
AccessorSet(component_type) ==
    [type : AccessorTypes, bufferView : {-1, 0, 1}, count : AccessorCounts,
     componentType : {component_type}]
HasBufferView(accessor) == accessor.bufferView # -1

BufferViewLists == { <<[byteOffset |-> 0], [byteOffset |-> 3]>> }

\* line 323 with MAT4 given 9 components: a plausible slip
type_num_dict_mat9 ==
    [t \in {"SCALAR", "VEC2", "VEC3", "VEC4", "MAT4"} |->
        CASE t = "SCALAR" -> 1 [] t = "VEC2" -> 2 [] t = "VEC3" -> 3 [] t = "VEC4" -> 4 [] OTHER -> 9]

\* line 323
type_num_dict ==
    [t \in {"SCALAR", "VEC2", "VEC3", "VEC4", "MAT4"} |->
        CASE t = "SCALAR" -> 1 [] t = "VEC2" -> 2 [] t = "VEC3" -> 3 [] t = "VEC4" -> 4 [] OTHER -> 16]

\* BinaryReader.read_as_data_type at byte p of binary: little-endian, w bytes
RECURSIVE LittleEndian(_, _)
LittleEndian(p, w) == IF w = 0 THEN 0 ELSE binary[p + 1] + 256 * LittleEndian(p + 1, w - 1)

\* n successive reads of a w-byte scalar from p on: the values read, where the
\* reader stands afterwards, and whether every read stayed inside the payload
RECURSIVE ReadScalars(_, _, _)
ReadScalars(p, n, w) ==
    IF n = 0 THEN [ok |-> TRUE, vals |-> <<>>, pos |-> p]
    ELSE IF p + w > Len(binary) THEN [ok |-> FALSE, vals |-> <<>>, pos |-> p]
    ELSE LET rest == ReadScalars(p + w, n - 1, w)
         IN [ok |-> rest.ok, vals |-> <<LittleEndian(p, w)>> \o rest.vals, pos |-> rest.pos]

\* lines 334-341: count elements out of the scalars read, one scalar each when
\* type_num is 1 and a list of type_num scalars each otherwise
DataList(vals, count, type_num) ==
    [k \in 1..count |->
        [scalar |-> type_num = 1,
         v |-> SubSeq(vals, (k - 1) * type_num + 1, k * type_num)]]

\* the reader is left where the previous accessor ended: a plausible slip
StartPosNoSeek(accessor) == br_pos

\* line 332: br.set_pos(buffer_views[accessor["bufferView"]]["byteOffset"])
StartPos(accessor) == buffer_views[accessor.bufferView + 1].byteOffset

\* the placeholder accessor is skipped without an entry: a plausible slip
PlaceholderSkipped(decoded) == decoded

\* line 330: decoded_binary.append([])
PlaceholderDecoded(decoded) == Append(decoded, <<>>)

DecIdle ==
    /\ accessors = <<>> /\ buffer_views = <<>> /\ binary = <<>> /\ br_pos = 0
    /\ decoded_binary = <<>> /\ accessor_index = 0 /\ dresult = "idle"

\* lines 318-323
DecStart ==
    /\ \E component_type \in {UNSIGNED_BYTE, UNSIGNED_SHORT} :
          accessors \in SeqsUpTo(AccessorSet(component_type), MaxAccessors)
    /\ buffer_views \in BufferViewLists
    /\ binary \in {BinaryOfLen(n) : n \in BinaryLengths}
    /\ br_pos = 0
    /\ decoded_binary = <<>>
    /\ accessor_index = 0
    /\ dresult = "running"

\* lines 324-342: one iteration of the loop over the accessors
DecodeAccessor ==
    /\ dresult = "running"
    /\ accessor_index < Len(accessors)
    /\ LET accessor == accessors[accessor_index + 1]
       IN IF accessor.type \notin DOMAIN type_num_dict
          THEN /\ dresult' = "KeyError"
               /\ UNCHANGED <<br_pos, decoded_binary, accessor_index>>
          ELSE IF ~HasBufferView(accessor)
          THEN /\ decoded_binary' = PlaceholderDecoded(decoded_binary)
               /\ accessor_index' = accessor_index + 1
               /\ UNCHANGED <<br_pos, dresult>>
          ELSE LET type_num == type_num_dict[accessor.type]
                   read == ReadScalars(StartPos(accessor), accessor.count * type_num,
                                       ComponentWidth(accessor.componentType))
               IN /\ br_pos' = read.pos
                  /\ IF read.ok
                     THEN /\ decoded_binary' =
                               Append(decoded_binary, DataList(read.vals, accessor.count, type_num))
                          /\ accessor_index' = accessor_index + 1
                          /\ UNCHANGED dresult
                     ELSE /\ dresult' = "OutOfBounds"
                          /\ UNCHANGED <<decoded_binary, accessor_index>>
    /\ UNCHANGED <<accessors, buffer_views, binary>>
    /\ UNCHANGED notDecVars

\* line 344: return decoded_binary
DecodeReturn ==
    /\ dresult = "running"
    /\ accessor_index = Len(accessors)
    /\ dresult' = "ok"
    /\ UNCHANGED <<accessors, buffer_views, binary, br_pos, decoded_binary, accessor_index>>
    /\ UNCHANGED notDecVars

DecNext == DecodeAccessor \/ DecodeReturn
-----------------------------------------------------------------------------
(* The license gate: validate_license and the URL checks it calls *)

NoneStr == [some |-> FALSE, v |-> ""]
SomeStr(x) == [some |-> TRUE, v |-> x]

\* the license names of the generated documents, as sequences of characters:
\* the names of the VRM meta block, variants of them, and (below) every short
\* string over NameAlphabet
KnownLicenseNames ==
    { <<>>,
      <<"R", "e", "d", "i", "s", "t", "r", "i", "b", "u", "t", "i", "o", "n", "_", "P", "r", "o", "h", "i", "b", "i", "t", "e", "d">>,
      <<"C", "C", "0">>,
      <<"C", "C", "_", "B", "Y">>,
      <<"C", "C", "_", "B", "Y", "_", "N", "C", "_", "S", "A">>,
      <<"C", "C", "_", "B", "Y", "_", "N", "D">>,
      <<"C", "C", "_", "B", "Y", "_", "N", "C", "_", "N", "D">>,
      <<"O", "t", "h", "e", "r">>,
      <<"o", "t", "h", "e", "r">>,
      <<"C", "C", "-", "B", "Y", "-", "N", "D">>,
      <<"c", "c", "-", "b", "y", "-", "n", "d">>,
      <<"C", "c", "_", "B", "y", "_", "N", "c", "_", "N", "d">>,
      <<"X", "C", "C", "_", "B", "Y", "_", "N", "D">>,
      <<"C", "C", "\n", "N", "D">>,
      <<"C", "C", "_", "B", "Y", "_", "N", "D", "\n">> }
NameAlphabet == {"C", "c", "N", "D"}
LicenseNames == KnownLicenseNames \cup SeqsUpTo(NameAlphabet, MaxNameLen)

\* the URL strings of the generated documents
UrlStrings ==
    { "",
      "https://hub.vroid.com/en/license?modification=disallow",
      "https://hub.vroid.com/en/license?modification=allow&remarks=true",
      "https://hub.vroid.com/en/license",
      "https://HUB.VROID.COM/license?modification=disallow",
      "https://hub.vroid.com/en/licenses?modification=disallow",
      "https://uv-license.com/en/license?remarks=true",
      "https://uv-license.com/en/license?pcu=true&modification=disallow",
      "https://uv-license.com/en/license?remarks=false",
      "https://example.com/license?modification=disallow&remarks=true",
      "http://[::1",
      "CC BY 4.0" }

\* urllib.parse.urlparse raising ValueError
ParseFailure == [raises |-> TRUE, hostname |-> NoneStr, path |-> <<>>, query |-> <<>>, geturl |-> ""]

\* urllib.parse.urlparse on the strings of UrlStrings: hostname (lower-cased by
\* urllib), path, parse_qsl(query) and geturl() of the result
urlparse(url_str) ==
    CASE url_str = "https://hub.vroid.com/en/license?modification=disallow" ->
          [raises |-> FALSE, hostname |-> SomeStr("hub.vroid.com"),
           path |-> <<"/", "e", "n", "/", "l", "i", "c", "e", "n", "s", "e">>,
           query |-> << <<"modification", "disallow">> >>,
           geturl |-> "https://hub.vroid.com/en/license?modification=disallow"]
      [] url_str = "https://hub.vroid.com/en/license?modification=allow&remarks=true" ->
          [raises |-> FALSE, hostname |-> SomeStr("hub.vroid.com"),
           path |-> <<"/", "e", "n", "/", "l", "i", "c", "e", "n", "s", "e">>,
           query |-> << <<"modification", "allow">>, <<"remarks", "true">> >>,
           geturl |-> "https://hub.vroid.com/en/license?modification=allow&remarks=true"]
      [] url_str = "https://hub.vroid.com/en/license" ->
          [raises |-> FALSE, hostname |-> SomeStr("hub.vroid.com"),
           path |-> <<"/", "e", "n", "/", "l", "i", "c", "e", "n", "s", "e">>,
           query |-> <<>>,
           geturl |-> "https://hub.vroid.com/en/license"]
      [] url_str = "https://HUB.VROID.COM/license?modification=disallow" ->
          [raises |-> FALSE, hostname |-> SomeStr("hub.vroid.com"),
           path |-> <<"/", "l", "i", "c", "e", "n", "s", "e">>,
           query |-> << <<"modification", "disallow">> >>,
           geturl |-> "https://HUB.VROID.COM/license?modification=disallow"]
      [] url_str = "https://hub.vroid.com/en/licenses?modification=disallow" ->
          [raises |-> FALSE, hostname |-> SomeStr("hub.vroid.com"),
           path |-> <<"/", "e", "n", "/", "l", "i", "c", "e", "n", "s", "e", "s">>,
           query |-> << <<"modification", "disallow">> >>,
           geturl |-> "https://hub.vroid.com/en/licenses?modification=disallow"]
      [] url_str = "https://uv-license.com/en/license?remarks=true" ->
          [raises |-> FALSE, hostname |-> SomeStr("uv-license.com"),
           path |-> <<"/", "e", "n", "/", "l", "i", "c", "e", "n", "s", "e">>,
           query |-> << <<"remarks", "true">> >>,
           geturl |-> "https://uv-license.com/en/license?remarks=true"]
      [] url_str = "https://uv-license.com/en/license?pcu=true&modification=disallow" ->
          [raises |-> FALSE, hostname |-> SomeStr("uv-license.com"),
           path |-> <<"/", "e", "n", "/", "l", "i", "c", "e", "n", "s", "e">>,
           query |-> << <<"pcu", "true">>, <<"modification", "disallow">> >>,
           geturl |-> "https://uv-license.com/en/license?pcu=true&modification=disallow"]
      [] url_str = "https://uv-license.com/en/license?remarks=false" ->
          [raises |-> FALSE, hostname |-> SomeStr("uv-license.com"),
           path |-> <<"/", "e", "n", "/", "l", "i", "c", "e", "n", "s", "e">>,
           query |-> << <<"remarks", "false">> >>,
           geturl |-> "https://uv-license.com/en/license?remarks=false"]
      [] url_str = "https://example.com/license?modification=disallow&remarks=true" ->
          [raises |-> FALSE, hostname |-> SomeStr("example.com"),
           path |-> <<"/", "l", "i", "c", "e", "n", "s", "e">>,
           query |-> << <<"modification", "disallow">>, <<"remarks", "true">> >>,
           geturl |-> "https://example.com/license?modification=disallow&remarks=true"]
      [] url_str = "http://[::1" ->
          ParseFailure
      [] url_str = "CC BY 4.0" ->
          [raises |-> FALSE, hostname |-> NoneStr,
           path |-> <<"C", "C", " ", "B", "Y", " ", "4", ".", "0">>,
           query |-> <<>>,
           geturl |-> "CC BY 4.0"]
      [] OTHER -> ParseFailure

\* dict(pairs): for a key that occurs twice the last pair wins
dict(pairs) ==
    [k \in {pairs[i][1] : i \in DOMAIN pairs} |->
        LET last == CHOOSE i \in DOMAIN pairs :
                       pairs[i][1] = k /\ \A j \in DOMAIN pairs : pairs[j][1] = k => j <= i
        IN pairs[last][2]]
\* query_dict.get(key)
DictGet(d, key) == IF key \in DOMAIN d THEN SomeStr(d[key]) ELSE NoneStr

\* str.endswith
EndsWith(s, suffix) ==
    Len(s) >= Len(suffix) /\ SubSeq(s, Len(s) - Len(suffix) + 1, Len(s)) = suffix

LicensePath == <<"/", "l", "i", "c", "e", "n", "s", "e">>

\* LicenseConfirmationRequiredProp(url, json_key, message_en, message_ja)
Prop(url, json_key, message) == [url |-> url, json_key |-> json_key, message |-> message]

\* a plausible slip: "return True" only inside the if, so a page that allows
\* modification falls through to the next check
validate_vroid_hub_license_url_fallthrough(url, query_dict, json_key, props) ==
    IF url.hostname # SomeStr("hub.vroid.com") \/ ~EndsWith(url.path, LicensePath)
    THEN [ret |-> FALSE, props |-> props]
    ELSE IF DictGet(query_dict, "modification") = SomeStr("disallow")
    THEN [ret |-> TRUE,
          props |-> Append(props, Prop(SomeStr(url.geturl), SomeStr(json_key), "VRoid Hub Alterations: No"))]
    ELSE [ret |-> FALSE, props |-> props]

\* lines 171-189
validate_vroid_hub_license_url(url, query_dict, json_key, props) ==
    IF url.hostname # SomeStr("hub.vroid.com") \/ ~EndsWith(url.path, LicensePath)
    THEN [ret |-> FALSE, props |-> props]
    ELSE [ret |-> TRUE,
          props |-> IF DictGet(query_dict, "modification") = SomeStr("disallow")
                    THEN Append(props, Prop(SomeStr(url.geturl), SomeStr(json_key), "VRoid Hub Alterations: No"))
                    ELSE props]

\* lines 192-210
validate_uni_virtual_license_url(url, query_dict, json_key, props) ==
    IF url.hostname # SomeStr("uv-license.com") \/ ~EndsWith(url.path, LicensePath)
    THEN [ret |-> FALSE, props |-> props]
    ELSE [ret |-> TRUE,
          props |-> IF DictGet(query_dict, "remarks") = SomeStr("true")
                    THEN Append(props, Prop(SomeStr(url.geturl), SomeStr(json_key), "UV License with Remarks"))
                    ELSE props]

\* lines 161-168: the generic item
CustomLicenseProp(url_str, json_key) ==
    Prop(SomeStr(url_str), SomeStr(json_key), "check its copyright license")

\* a plausible slip: a URL that does not parse is dropped without an item
validate_license_url_drop_unparsed(url_str, json_key, props) ==
    IF url_str = "" THEN [props |-> props, calls |-> <<>>]
    ELSE LET url == urlparse(url_str)
         IN IF url.raises THEN [props |-> props, calls |-> <<>>]
            ELSE LET query_dict == dict(url.query)
                     vroid == validate_vroid_hub_license_url(url, query_dict, json_key, props)
                     uv == validate_uni_virtual_license_url(url, query_dict, json_key, props)
                 IN IF vroid.ret THEN [props |-> vroid.props, calls |-> <<"vroid_hub">>]
                    ELSE IF uv.ret THEN [props |-> uv.props, calls |-> <<"vroid_hub", "uni_virtual">>]
                    ELSE [props |-> Append(props, CustomLicenseProp(url_str, json_key)),
                          calls |-> <<"vroid_hub", "uni_virtual">>]

\* lines 147-168: the list after the call, and the provider checks it called
validate_license_url(url_str, json_key, props) ==
    IF url_str = "" THEN [props |-> props, calls |-> <<>>]
    ELSE LET url == urlparse(url_str)
         IN IF url.raises
            THEN [props |-> Append(props, CustomLicenseProp(url_str, json_key)), calls |-> <<>>]
            ELSE LET query_dict == dict(url.query)
                     vroid == validate_vroid_hub_license_url(url, query_dict, json_key, props)
                     uv == validate_uni_virtual_license_url(url, query_dict, json_key, props)
                 IN IF vroid.ret THEN [props |-> vroid.props, calls |-> <<"vroid_hub">>]
                    ELSE IF uv.ret THEN [props |-> uv.props, calls |-> <<"vroid_hub", "uni_virtual">>]
                    ELSE [props |-> Append(props, CustomLicenseProp(url_str, json_key)),
                          calls |-> <<"vroid_hub", "uni_virtual">>]

\* re.match(pattern, s): the pattern, a sequence of literal characters and
\* ".*" items, matches a prefix of s; "." matches any character but a newline
RECURSIVE re_match(_, _)
re_match(pattern, s) ==
    IF pattern = <<>> THEN TRUE
    ELSE IF Head(pattern) = ".*"
    THEN \/ re_match(Tail(pattern), s)
         \/ s # <<>> /\ Head(s) # "\n" /\ re_match(pattern, Tail(s))
    ELSE s # <<>> /\ Head(s) = Head(pattern) /\ re_match(Tail(pattern), Tail(s))

\* str.upper (only the letters of the pattern matter)
ToUpper(c) ==
    CASE c = "c" -> "C" [] c = "n" -> "N" [] c = "d" -> "D" [] OTHER -> c
UpperCase(s) == [i \in DOMAIN s |-> ToUpper(s[i])]

\* a plausible slip: the pattern compiled with re.IGNORECASE
NoDerivativesMatchIgnoreCase(name) ==
    re_match(<<"C", "C", ".*", "N", "D", ".*">>, UpperCase(name))

\* line 221: re.match("CC(.*)ND(.*)", license_name)
NoDerivativesMatch(name) ==
    re_match(<<"C", "C", ".*", "N", "D", ".*">>, name)

\* vrm_types.nested_json_value_getter(json, [..., field], ""): the value of the
\* meta field, the default when the field is absent
json_get(field, default) == IF field.some THEN field.v ELSE default

Returned == [kind |-> "returned", props |-> <<>>]
NotCalled == [kind |-> "none", props |-> <<>>]

\* a plausible slip: the condition carries the first finding only
LicenseOutcomeFirstOnly(props) ==
    IF props # <<>> THEN [kind |-> "LicenseConfirmationRequired", props |-> <<Head(props)>>]
    ELSE Returned

\* lines 261-262: raise LicenseConfirmationRequired(confirmations), or return
LicenseOutcome(props) ==
    IF props # <<>> THEN [kind |-> "LicenseConfirmationRequired", props |-> props]
    ELSE Returned

NoLicenseHist == [checks |-> <<>>, signals |-> 0]

\* validate_license has not been called
LicNotCalled ==
    /\ license_name = <<>>
    /\ confirmations = <<>>
    /\ lpc = "idle"
    /\ lresult = NotCalled
    /\ lhist = NoLicenseHist

LicIdle ==
    /\ meta = [licenseName |-> None, otherPermissionUrl |-> NoneStr, otherLicenseUrl |-> NoneStr]
    /\ LicNotCalled

\* line 214, over every generated meta block
LicStart ==
    /\ meta \in [licenseName : {None} \cup {Some(n) : n \in LicenseNames},
                 otherPermissionUrl : {NoneStr} \cup {SomeStr(u) : u \in UrlStrings},
                 otherLicenseUrl : {NoneStr} \cup {SomeStr(u) : u \in UrlStrings}]
    /\ license_name = <<>>
    /\ confirmations = <<>>
    /\ lpc = "licenseName"
    /\ lresult = NotCalled
    /\ lhist = NoLicenseHist

Checked(key, examined, items, calls) ==
    [lhist EXCEPT !.checks = Append(@, [key |-> key, examined |-> examined,
                                        items |-> items, calls |-> calls])]
\* the items a step added to the list
Added(before, after) == SubSeq(after, Len(before) + 1, Len(after))

\* lines 218-229
LicenseCheckName ==
    /\ lpc = "licenseName"
    /\ LET read_name == json_get(meta.licenseName, <<>>)
           after == IF NoDerivativesMatch(read_name)
                    THEN Append(confirmations, Prop(NoneStr, NoneStr, "No derivative works are allowed"))
                    ELSE confirmations
       IN /\ license_name' = read_name
          /\ confirmations' = after
          /\ lhist' = Checked("licenseName", TRUE, Added(confirmations, after), <<>>)
    /\ lpc' = "otherPermissionUrl"
    /\ UNCHANGED <<meta, lresult>>
    /\ UNCHANGED notLicVars

\* lines 231-239
LicenseCheckPermissionUrl ==
    /\ lpc = "otherPermissionUrl"
    /\ LET checked == validate_license_url(json_get(meta.otherPermissionUrl, ""),
                                           "otherPermissionUrl", confirmations)
       IN /\ confirmations' = checked.props
          /\ lhist' = Checked("otherPermissionUrl", TRUE,
                              Added(confirmations, checked.props), checked.calls)
    /\ lpc' = "otherLicenseUrl"
    /\ UNCHANGED <<meta, license_name, lresult>>
    /\ UNCHANGED notLicVars

\* a plausible slip: the name compared without regard to the case of its first letter
IsOtherLicenseAnyCase(name) ==
    name \in { <<"O", "t", "h", "e", "r">>, <<"o", "t", "h", "e", "r">> }

\* line 241: license_name == "Other"
IsOtherLicense(name) == name = <<"O", "t", "h", "e", "r">>

\* lines 241-259
LicenseCheckOtherLicenseUrl ==
    /\ lpc = "otherLicenseUrl"
    /\ IF IsOtherLicense(license_name)
       THEN LET other_license_url_str == json_get(meta.otherLicenseUrl, "")
            IN IF other_license_url_str = ""
               THEN LET after == Append(confirmations,
                                        Prop(NoneStr, NoneStr, "Other license but no license url"))
                    IN /\ confirmations' = after
                       /\ lhist' = Checked("otherLicenseUrl", TRUE, Added(confirmations, after), <<>>)
               ELSE LET checked == validate_license_url(other_license_url_str,
                                                        "otherLicenseUrl", confirmations)
                    IN /\ confirmations' = checked.props
                       /\ lhist' = Checked("otherLicenseUrl", TRUE,
                                           Added(confirmations, checked.props), checked.calls)
       ELSE /\ lhist' = Checked("otherLicenseUrl", FALSE, <<>>, <<>>)
            /\ UNCHANGED confirmations
    /\ lpc' = "finish"
    /\ UNCHANGED <<meta, license_name, lresult>>
    /\ UNCHANGED notLicVars

\* lines 261-262
LicenseFinish ==
    /\ lpc = "finish"
    /\ lresult' = LicenseOutcome(confirmations)
    /\ lhist' = [lhist EXCEPT !.signals = @ + (IF lresult'.kind = "LicenseConfirmationRequired" THEN 1 ELSE 0)]
    /\ lpc' = "done"
    /\ UNCHANGED <<meta, license_name, confirmations>>
    /\ UNCHANGED notLicVars

LicNext ==
    \/ LicenseCheckName
    \/ LicenseCheckPermissionUrl
    \/ LicenseCheckOtherLicenseUrl
    \/ LicenseFinish

-----------------------------------------------------------------------------
(* read_vrm and material_read (vrm_load.py) *)

MaxMaterials == 2

DRACO == "KHR_DRACO_MESH_COMPRESSION"

\* json["extensionsRequired"]: absent, or a list of extension names
ExtensionsRequiredSet ==
    { None, Some(<<>>), Some(<<DRACO>>), Some(<<"KHR_texture_transform">>),
      Some(<<"KHR_texture_transform", DRACO>>) }

\* the entries of json["materials"]; well_formed says whether the factory can
\* build a descriptor from the entry
JsonMaterialSet ==
    { [name |-> "a", well_formed |-> TRUE], [name |-> "b", well_formed |-> TRUE],
      [name |-> "x", well_formed |-> FALSE] }

\* the entries of json["extensions"]["VRM"]["materialProperties"]
ExtMaterialSet == { [shader |-> "VRM/MToon"], [shader |-> "VRM_USE_GLTFSHADER"] }

\* json["extensions"]["VRM"]["materialProperties"]: absent, a value that is not
\* a list, or a list of entries
MaterialPropertiesSet ==
    { None, Some([is_list |-> FALSE, items |-> <<>>]) }
    \cup { Some([is_list |-> TRUE, items |-> e]) : e \in SeqsUpTo(ExtMaterialSet, MaxMaterials) }

JsonMaterialLists == {None} \cup { Some(s) : s \in SeqsUpTo(JsonMaterialSet, MaxMaterials) }

\* the documents in the generated files, apart from their meta block
JsonDocs ==
    [extensionsRequired : ExtensionsRequiredSet,
     materials : JsonMaterialLists,
     materialProperties : MaterialPropertiesSet]

\* a file parse_glb raises on
BrokenFile ==
    [parsed |-> FALSE,
     json |-> [extensionsRequired |-> None, materials |-> None, materialProperties |-> None]]

ModelFiles == {BrokenFile} \cup [parsed : {TRUE}, json : JsonDocs]

\* the meta blocks of the generated files
ReadMetas ==
    [licenseName : { None, Some(<<"C", "C", "_", "B", "Y", "_", "N", "D">>),
                     Some(<<"O", "t", "h", "e", "r">>) },
     otherPermissionUrl : { NoneStr, SomeStr("CC BY 4.0") },
     otherLicenseUrl : { NoneStr, SomeStr(""), SomeStr("https://hub.vroid.com/en/license") }]

\* vrm2pydata_factory.material(mat, ext_mat): a descriptor, or None when the
\* material's data is malformed
vrm2pydata_factory_material(mat, ext_mat) ==
    IF mat.well_formed THEN Some([name |-> mat.name, shader |-> ext_mat.shader]) ELSE None

\* line 435: [{"shader": "VRM_USE_GLTFSHADER"}] * len(json_materials)
DefaultMaterialProperties(n) == [i \in 1..n |-> [shader |-> "VRM_USE_GLTFSHADER"]]

\* zip(a, b): pairs up to the end of the shorter list
zip(a, b) ==
    [i \in 1..(IF Len(a) < Len(b) THEN Len(a) ELSE Len(b)) |-> <<a[i], b[i]>>]

\* lines 440-443: the loop that appends the descriptors the factory yields
RECURSIVE AppendMaterials(_, _)
AppendMaterials(materials, pairs) ==
    IF pairs = <<>> THEN materials
    ELSE LET material == vrm2pydata_factory_material(Head(pairs)[1], Head(pairs)[2])
         IN AppendMaterials(IF material.some THEN Append(materials, material.v) ELSE materials,
                            Tail(pairs))

\* lines 430-443: vrm_pydata.materials after material_read, from the list before
material_read(json, materials) ==
    LET json_materials == IF json.materials.some THEN json.materials.v ELSE <<>>
        vrm_extension_material_properties ==
            IF json.materialProperties.some THEN json.materialProperties.v
            ELSE [is_list |-> TRUE, items |-> DefaultMaterialProperties(Len(json_materials))]
    IN IF ~vrm_extension_material_properties.is_list
       THEN materials
       ELSE AppendMaterials(materials, zip(json_materials, vrm_extension_material_properties.items))

\* a plausible slip: only the first required extension is looked at
UsesDracoFirstOnly(json) ==
    /\ json.extensionsRequired.some
    /\ json.extensionsRequired.v # <<>>
    /\ Head(json.extensionsRequired.v) = DRACO

\* lines 132-135
UsesDraco(json) ==
    /\ json.extensionsRequired.some
    /\ \E i \in 1..Len(json.extensionsRequired.v) : json.extensionsRequired.v[i] = DRACO

\* a plausible slip: the license is validated whatever the flag says
LicenseCheckedAlways(flag) == TRUE

\* line 140: if license_check
LicenseChecked(flag) == flag

NoPydata == [created |-> FALSE, materials |-> <<>>]
ReadNotEnded == [kind |-> "none", error |-> "", props |-> <<>>]
ReadRaise(e) == [kind |-> "error", error |-> e, props |-> <<>>]
ReadRaiseLicense(props) == [kind |-> "LicenseConfirmationRequired", error |-> "", props |-> props]
ReadReturned == [kind |-> "returned", error |-> "", props |-> <<>>]

ReadIdle ==
    /\ model_file = BrokenFile /\ license_check = FALSE /\ vrm_pydata = NoPydata
    /\ rpc = "idle" /\ rresult = ReadNotEnded /\ rhist = <<>>

\* line 120, over every generated file and both values of license_check
ReadStart ==
    /\ model_file \in ModelFiles
    /\ meta \in ReadMetas
    /\ license_check \in BOOLEAN
    /\ vrm_pydata = NoPydata
    /\ rpc = "parse_glb"
    /\ rresult = ReadNotEnded
    /\ rhist = <<>>

\* lines 127-129
ReadParseGlb ==
    /\ rpc = "parse_glb"
    /\ rhist' = Append(rhist, "parse_glb")
    /\ IF model_file.parsed
       THEN /\ vrm_pydata' = [created |-> TRUE, materials |-> <<>>]
            /\ rpc' = "draco"
            /\ UNCHANGED rresult
       ELSE /\ rresult' = ReadRaise("parse_glb")
            /\ rpc' = "done"
            /\ UNCHANGED vrm_pydata
    /\ UNCHANGED <<model_file, license_check>>
    /\ UNCHANGED notReadVars

\* lines 131-138
ReadDracoCheck ==
    /\ rpc = "draco"
    /\ rhist' = Append(rhist, "draco")
    /\ IF UsesDraco(model_file.json)
       THEN rresult' = ReadRaise("Draco") /\ rpc' = "done"
       ELSE rpc' = "license_check" /\ UNCHANGED rresult
    /\ UNCHANGED <<model_file, license_check, vrm_pydata>>
    /\ UNCHANGED notReadVars

\* lines 140-141: the call of validate_license, or its omission
ReadLicenseCheck ==
    /\ rpc = "license_check"
    /\ IF LicenseChecked(license_check)
       THEN /\ rpc' = "validate_license"
            /\ rhist' = Append(rhist, "validate_license")
            /\ lpc' = "licenseName"
            /\ license_name' = <<>>
            /\ confirmations' = <<>>
       ELSE /\ rpc' = "material_read"
            /\ UNCHANGED <<rhist, lpc, license_name, confirmations>>
    /\ UNCHANGED <<model_file, license_check, vrm_pydata, rresult>>
    /\ UNCHANGED <<meta, lresult, lhist>>
    /\ UNCHANGED <<glbVars, decVars, impVars, meshVars, diffVars, skinVars>>

\* line 141: validate_license returns, or its condition leaves read_vrm
ReadLicenseChecked ==
    /\ rpc = "validate_license"
    /\ lpc = "done"
    /\ IF lresult.kind = "LicenseConfirmationRequired"
       THEN rresult' = ReadRaiseLicense(lresult.props) /\ rpc' = "done"
       ELSE rpc' = "material_read" /\ UNCHANGED rresult
    /\ UNCHANGED <<model_file, license_check, vrm_pydata, rhist>>
    /\ UNCHANGED notReadVars

\* line 143
ReadMaterialRead ==
    /\ rpc = "material_read"
    /\ rhist' = Append(rhist, "material_read")
    /\ vrm_pydata' = [vrm_pydata EXCEPT !.materials = material_read(model_file.json, @)]
    /\ rpc' = "return"
    /\ UNCHANGED <<model_file, license_check, rresult>>
    /\ UNCHANGED notReadVars

\* line 144
ReadReturn ==
    /\ rpc = "return"
    /\ rresult' = ReadReturned
    /\ rpc' = "done"
    /\ UNCHANGED <<model_file, license_check, vrm_pydata, rhist>>
    /\ UNCHANGED notReadVars

ReadNext ==
    \/ ReadParseGlb
    \/ ReadDracoCheck
    \/ ReadLicenseCheck
    \/ ReadLicenseChecked
    \/ ReadMaterialRead
    \/ ReadReturn

-----------------------------------------------------------------------------
(* The import operators (io_scene_vrm/__init__.py): ImportVRM.execute and   *)
(* WM_OT_licenseConfirmation                                               *)

\* os.environ.get("BLENDER_VRM_AUTOMATIC_LICENSE_CONFIRMATION")
EnvironSet == { NoneStr, SomeStr("true"), SomeStr("false"), SomeStr("TRUE") }

\* the files handed to the import operator
ImportFiles ==
    {BrokenFile}
    \cup [parsed : {TRUE},
          json : [extensionsRequired : ExtensionsRequiredSet,
                  materials : JsonMaterialLists,
                  materialProperties : {None}]]

\* __init__.py line 96
AutomaticConfirmation(env) == env = SomeStr("true")

\* a plausible slip: the confirmation step goes on whatever import_anyway says
CancelledNever(anyway) == FALSE

\* __init__.py line 490: if not self.import_anyway
Cancelled(anyway) == ~anyway

NoImportHist ==
    [reads |-> <<>>, first |-> "none", executed |-> FALSE, anyway |-> FALSE,
     by |-> "nobody", built |-> 0]

ImpIdle ==
    /\ environ = NoneStr /\ execution_context = "" /\ import_anyway = FALSE
    /\ ipc = "idle" /\ iresult = "none" /\ ihist = NoImportHist

\* the operator is invoked on a file, in some environment
ImportStart ==
    /\ model_file \in ImportFiles
    /\ meta \in ReadMetas
    /\ environ \in EnvironSet
    /\ license_check = FALSE /\ vrm_pydata = NoPydata
    /\ rpc = "idle" /\ rresult = ReadNotEnded /\ rhist = <<>>
    /\ execution_context = "" /\ import_anyway = FALSE
    /\ ipc = "execute" /\ iresult = "none" /\ ihist = NoImportHist

\* the call of vrm_load.read_vrm with the flag given
CallReadVrm(flag) ==
    /\ license_check' = flag
    /\ vrm_pydata' = NoPydata
    /\ rpc' = "parse_glb"
    /\ rresult' = ReadNotEnded
    /\ rhist' = <<>>
    /\ UNCHANGED model_file

\* __init__.py lines 76-89: ImportVRM.execute calls read_vrm
ImportExecute ==
    /\ ipc = "execute"
    /\ CallReadVrm(TRUE)
    /\ ihist' = [ihist EXCEPT !.reads = Append(@, TRUE)]
    /\ ipc' = "first_read"
    /\ UNCHANGED <<environ, execution_context, import_anyway, iresult>>
    /\ UNCHANGED <<glbVars, decVars, licVars, meshVars, diffVars, skinVars>>

\* __init__.py lines 79-110: the first read has ended
ImportFirstRead ==
    /\ ipc = "first_read"
    /\ rpc = "done"
    /\ IF rresult.kind = "returned"
       THEN /\ iresult' = "FINISHED"
            /\ ihist' = [ihist EXCEPT !.first = rresult.kind, !.built = @ + 1]
            /\ ipc' = "done"
            /\ UNCHANGED <<execution_context, import_anyway>>
       ELSE IF rresult.kind = "LicenseConfirmationRequired"
       THEN /\ execution_context' = IF AutomaticConfirmation(environ)
                                    THEN "EXEC_DEFAULT" ELSE "INVOKE_DEFAULT"
            /\ import_anyway' = AutomaticConfirmation(environ)
            /\ ihist' = [ihist EXCEPT !.first = rresult.kind,
                                      !.by = IF AutomaticConfirmation(environ)
                                             THEN "environment" ELSE @]
            /\ ipc' = IF AutomaticConfirmation(environ)
                      THEN "confirmation_execute" ELSE "confirmation_invoke"
            /\ UNCHANGED iresult
       ELSE /\ iresult' = "error"
            /\ ihist' = [ihist EXCEPT !.first = rresult.kind]
            /\ ipc' = "done"
            /\ UNCHANGED <<execution_context, import_anyway>>
    /\ UNCHANGED environ
    /\ UNCHANGED <<glbVars, decVars, licVars, rdVars, meshVars, diffVars, skinVars>>

\* __init__.py lines 503-506 and 530-534: the dialog, where the user ticks
\* "Import anyway" or not and presses OK, or dismisses the dialog
ConfirmationInvoke ==
    /\ ipc = "confirmation_invoke"
    /\ \E choice \in {"ok_ticked", "ok_unticked", "dismissed"} :
          IF choice = "dismissed"
          THEN /\ iresult' = "CANCELLED"
               /\ ipc' = "done"
               /\ UNCHANGED <<import_anyway, ihist>>
          ELSE /\ import_anyway' = (choice = "ok_ticked")
               /\ ihist' = [ihist EXCEPT !.by = "user"]
               /\ ipc' = "confirmation_execute"
               /\ UNCHANGED iresult
    /\ UNCHANGED <<environ, execution_context>>
    /\ UNCHANGED <<glbVars, decVars, licVars, rdVars, meshVars, diffVars, skinVars>>

\* __init__.py lines 489-501: WM_OT_licenseConfirmation.execute
ConfirmationExecute ==
    /\ ipc = "confirmation_execute"
    /\ IF Cancelled(import_anyway)
       THEN /\ iresult' = "CANCELLED"
            /\ ihist' = [ihist EXCEPT !.executed = TRUE, !.anyway = import_anyway]
            /\ ipc' = "done"
            /\ UNCHANGED rdVars
       ELSE /\ CallReadVrm(FALSE)
            /\ ihist' = [ihist EXCEPT !.executed = TRUE, !.anyway = import_anyway,
                                      !.reads = Append(@, FALSE)]
            /\ ipc' = "second_read"
            /\ UNCHANGED iresult
    /\ UNCHANGED <<environ, execution_context, import_anyway>>
    /\ UNCHANGED <<glbVars, decVars, licVars, meshVars, diffVars, skinVars>>

\* __init__.py lines 492-501: the second read has ended
ConfirmationSecondRead ==
    /\ ipc = "second_read"
    /\ rpc = "done"
    /\ IF rresult.kind = "returned"
       THEN /\ iresult' = "FINISHED"
            /\ ihist' = [ihist EXCEPT !.built = @ + 1]
       ELSE /\ iresult' = "error"
            /\ UNCHANGED ihist
    /\ ipc' = "done"
    /\ UNCHANGED <<environ, execution_context, import_anyway>>
    /\ UNCHANGED <<glbVars, decVars, licVars, rdVars, meshVars, diffVars, skinVars>>

ImportNext ==
    \/ ImportExecute
    \/ ImportFirstRead
    \/ ConfirmationInvoke
    \/ ConfirmationExecute
    \/ ConfirmationSecondRead

-----------------------------------------------------------------------------
(* mesh_read (vrm_load.py) *)

MaxPrimitives == 3

\* GlConstants.TRIANGLES, the default of line 359, and GlConstants.POINTS
TRIANGLES == 4
POINTS == 0

NoneInt == [some |-> FALSE, v |-> 0]

\* line 383: 1.16, in hundredths
LegacyVersionBound == 116

\* the generator strings of the generated documents
GeneratorStrings ==
    { <<"U", "n", "i", "G", "L", "T", "F", "-", "1", ".", "1", "0">>,
      <<"U", "n", "i", "G", "L", "T", "F", "-", "1", ".", "2", "0">>,
      <<"U", "n", "i", "G", "L", "T", "F", "-", "1", ".", "1", "6">>,
      <<"U", "n", "i", "G", "L", "T", "F", "-", "b", "e", "t", "a">>,
      <<"V", "R", "o", "i", "d", "-", "0", ".", "1", "0">> }

\* the generator entry of a document: the key it is found under and its value
GeneratorSet ==
    { [key |-> "assets", generator |-> None] }
    \cup { [key |-> "assets", generator |-> Some(g)] : g \in GeneratorStrings }
    \cup { [key |-> "asset",
            generator |-> Some(<<"U", "n", "i", "G", "L", "T", "F", "-", "1", ".", "1", "0">>)] }

MeshPrimitive(mode, texcoord_0, texcoord_1) ==
    [mode |-> mode, indices |-> 0, material |-> 0,
     attributes |-> [TEXCOORD_0 |-> texcoord_0, TEXCOORD_1 |-> texcoord_1]]

\* the primitives of the generated documents: mode absent or given, and the
\* accessors (0-based) of the UV sets, absent or given
PrimitiveSet ==
    { MeshPrimitive(NoneInt, Some(1), NoneInt),
      MeshPrimitive(Some(TRIANGLES), Some(1), Some(2)),
      MeshPrimitive(Some(TRIANGLES), Some(2), Some(2)),
      MeshPrimitive(Some(POINTS), Some(1), NoneInt),
      MeshPrimitive(NoneInt, NoneInt, NoneInt),
      MeshPrimitive(Some(TRIANGLES), Some(2), NoneInt) }

\* json["meshes"]: the primitives of a document, in one mesh or split in two
MeshLists ==
    { <<>> }
    \cup { <<flat>> : flat \in SeqsUpTo(PrimitiveSet, MaxPrimitives) }
    \cup UNION { { <<SubSeq(flat, 1, k), SubSeq(flat, k + 1, Len(flat))>> : k \in 0..Len(flat) } :
                    flat \in SeqsUpTo(PrimitiveSet, MaxPrimitives) }

\* vrm_pydata.decoded_binary before the call: accessor 0 holds indices,
\* accessors 1 and 2 hold UVs
DecodedArrays ==
    << <<0, 1, 2, 2, 1, 3>>,
       << <<2, -3>>, <<5, 0>> >>,
       << <<1, 1>> >> >>

\* line 380: json_get(vrm_pydata.json, ["assets", "generator"], "")
json_get_generator(json) ==
    IF json.generator_key = "assets" /\ json.generator.some THEN json.generator.v ELSE <<>>

\* re.match("UniGLTF", gen)
MatchesUniGLTF(gen) ==
    Len(gen) >= 7 /\ SubSeq(gen, 1, 7) = <<"U", "n", "i", "G", "L", "T", "F">>

Digits == {"0", "1", "2", "3", "4", "5", "6", "7", "8", "9"}
DigitValue(c) ==
    CASE c = "0" -> 0 [] c = "1" -> 1 [] c = "2" -> 2 [] c = "3" -> 3 [] c = "4" -> 4
      [] c = "5" -> 5 [] c = "6" -> 6 [] c = "7" -> 7 [] c = "8" -> 8 [] OTHER -> 9

\* float("".join(gen[-4:])) for the strings of GeneratorStrings, in hundredths;
\* ValueError when the last four characters are not of the form d.dd
float_of_last4(gen) ==
    LET last == IF Len(gen) > 4 THEN SubSeq(gen, Len(gen) - 3, Len(gen)) ELSE gen
    IN IF /\ Len(last) = 4 /\ last[1] \in Digits /\ last[2] = "."
          /\ last[3] \in Digits /\ last[4] \in Digits
       THEN [raises |-> FALSE,
             v |-> 100 * DigitValue(last[1]) + 10 * DigitValue(last[3]) + DigitValue(last[4])]
       ELSE [raises |-> TRUE, v |-> 0]

\* lines 379-384
legacy_uv_flag(json) ==
    LET gen == json_get_generator(json)
    IN /\ MatchesUniGLTF(gen)
       /\ ~float_of_last4(gen).raises
       /\ float_of_last4(gen).v < LegacyVersionBound

\* a plausible slip: a primitive without mode is taken for a point list
PolygonModeDefaultPoints(primitive) ==
    IF primitive.mode.some THEN primitive.mode.v ELSE POINTS

\* line 359: primitive.get("mode", 4)
PolygonMode(primitive) ==
    IF primitive.mode.some THEN primitive.mode.v ELSE TRIANGLES

\* line 366: numpy.reshape(face_indices, (-1, 3)), a new array
Reshape3(face_indices) ==
    [k \in 1..(Len(face_indices) \div 3) |-> SubSeq(face_indices, 3 * k - 2, 3 * k)]

\* line 388: "TEXCOORD_{}".format(uv_count)
TexcoordName(uv_count) ==
    CASE uv_count = 0 -> "TEXCOORD_0" [] uv_count = 1 -> "TEXCOORD_1" [] OTHER -> "TEXCOORD_n"

\* line 389: hasattr(vrm_mesh, texcoord_name); a vrm_types.Mesh has the
\* attributes that lines 374-376 attached
hasattr(vrm_mesh, name) ==
    name \in DOMAIN vrm_mesh.attributes /\ vrm_mesh.attributes[name].some

\* lines 392-393: for uv in texcoord: uv[1] = 1 + uv[1], on the array object
\* that decoded_binary holds under accessor
RewriteUVs(decoded, accessor) ==
    [decoded EXCEPT ![accessor + 1] =
        [k \in 1..Len(@) |-> <<@[k][1], 1 + @[k][2]>>]]

\* lines 386-396: the loop over TEXCOORD_0, TEXCOORD_1, ... of one primitive
RECURSIVE TexcoordFix(_, _, _, _)
TexcoordFix(decoded, vrm_mesh, legacy, uv_count) ==
    IF hasattr(vrm_mesh, TexcoordName(uv_count))
    THEN TexcoordFix(IF legacy
                     THEN RewriteUVs(decoded, vrm_mesh.attributes[TexcoordName(uv_count)].v)
                     ELSE decoded,
                     vrm_mesh, legacy, uv_count + 1)
    ELSE decoded

MeshRunning == [kind |-> "running", mesh |-> 0, primitive |-> 0]
MeshRaise(n, j) == [kind |-> "Unsupported polygon type", mesh |-> n, primitive |-> j]
MeshReturned == [kind |-> "ok", mesh |-> 0, primitive |-> 0]
NoMeshHist == [resolved |-> <<>>, attached |-> <<>>]

MeshIdle ==
    /\ mesh_json = [generator_key |-> "assets", generator |-> None, meshes |-> <<>>]
    /\ pydata_decoded_binary = <<>> /\ pydata_meshes = <<>> /\ mesh_primitives = <<>>
    /\ mesh_n = 0 /\ prim_j = 0
    /\ mresult = [kind |-> "idle", mesh |-> 0, primitive |-> 0] /\ mhist = NoMeshHist

\* line 347, over every generated document
MeshStart ==
    /\ \E g \in GeneratorSet, ms \in MeshLists :
          mesh_json = [generator_key |-> g.key, generator |-> g.generator, meshes |-> ms]
    /\ pydata_decoded_binary = DecodedArrays
    /\ pydata_meshes = <<>>
    /\ mesh_primitives = <<>>
    /\ mesh_n = 0 /\ prim_j = 0
    /\ mresult = MeshRunning
    /\ mhist = NoMeshHist

\* lines 351-424: one primitive of the current mesh
MeshReadPrimitive ==
    /\ mresult.kind = "running"
    /\ mesh_n < Len(mesh_json.meshes)
    /\ prim_j < Len(mesh_json.meshes[mesh_n + 1])
    /\ LET primitive == mesh_json.meshes[mesh_n + 1][prim_j + 1]
           vrm_mesh == [object_id |-> mesh_n,
                        face_indices |-> Reshape3(pydata_decoded_binary[primitive.indices + 1]),
                        attributes |-> primitive.attributes,
                        material_index |-> primitive.material]
       IN IF PolygonMode(primitive) # TRIANGLES
          THEN /\ mresult' = MeshRaise(mesh_n, prim_j)
               /\ UNCHANGED <<pydata_decoded_binary, mesh_primitives, prim_j, mhist>>
          ELSE /\ pydata_decoded_binary' =
                     TexcoordFix(pydata_decoded_binary, vrm_mesh, legacy_uv_flag(mesh_json), 0)
               /\ mesh_primitives' = Append(mesh_primitives, vrm_mesh)
               /\ prim_j' = prim_j + 1
               /\ mhist' = [resolved |-> Append(mhist.resolved, <<mesh_n, prim_j>>),
                            attached |-> Append(mhist.attached, <<mesh_n, prim_j>>)]
               /\ UNCHANGED mresult
    /\ UNCHANGED <<mesh_json, pydata_meshes, mesh_n>>
    /\ UNCHANGED notMeshVars

\* lines 350 and 425: the primitives of the current mesh are appended
MeshAppend ==
    /\ mresult.kind = "running"
    /\ mesh_n < Len(mesh_json.meshes)
    /\ prim_j = Len(mesh_json.meshes[mesh_n + 1])
    /\ pydata_meshes' = Append(pydata_meshes, mesh_primitives)
    /\ mesh_primitives' = <<>>
    /\ mesh_n' = mesh_n + 1
    /\ prim_j' = 0
    /\ UNCHANGED <<mesh_json, pydata_decoded_binary, mresult, mhist>>
    /\ UNCHANGED notMeshVars

\* the loop of line 349 is over
MeshReturn ==
    /\ mresult.kind = "running"
    /\ mesh_n = Len(mesh_json.meshes)
    /\ mresult' = MeshReturned
    /\ UNCHANGED <<mesh_json, pydata_decoded_binary, pydata_meshes, mesh_primitives,
                   mesh_n, prim_j, mhist>>
    /\ UNCHANGED notMeshVars

MeshNext == MeshReadPrimitive \/ MeshAppend \/ MeshReturn

-----------------------------------------------------------------------------
(* vrm_dict_diff (vrm_load.py) *)

MaxItems == 2

\* numbers are kept in tenths, so that 1, 1.5 and a tolerance of 0.5 are integers
Tenths == 10

\* a JSON value as Python holds it: its type, its number (bool: True is 1), its
\* string, its items (list: the elements; dict: the values, each with its key)
JsonValue(t, n, s, items) == [t |-> t, n |-> n, s |-> s, key |-> "", items |-> items]
JInt(k) == JsonValue("int", Tenths * k, "", <<>>)
JFloat(tenths) == JsonValue("float", tenths, "", <<>>)
JBool(b) == JsonValue("bool", IF b THEN Tenths ELSE 0, "", <<>>)
JStr(s) == JsonValue("str", 0, s, <<>>)
JNull == JsonValue("NoneType", 0, "", <<>>)
JList(items) == JsonValue("list", 0, "", items)
JDict(items) == JsonValue("dict", 0, "", items)
Keyed(k, value) == [value EXCEPT !.key = k]

\* the keys of the generated dicts, in sorted() order
DictKeys == <<"a", "b">>

JsonLeaves == { JInt(1), JInt(2), JBool(TRUE), JStr("a"), JNull, JFloat(15) }

\* the generated values: leaves, lists of leaves, dicts of leaves over DictKeys,
\* and one level of list in dict and dict in list
JsonValues ==
    JsonLeaves
    \cup { JList(items) : items \in SeqsUpTo(JsonLeaves, MaxItems) }
    \cup { JDict(<<>>) }
    \cup { JDict(<<Keyed(k, v)>>) : k \in {"a", "b"}, v \in JsonLeaves }
    \cup { JDict(<<Keyed("a", v), Keyed("b", w)>>) : v \in JsonLeaves, w \in JsonLeaves }
    \cup { JList(<<JDict(<<Keyed("a", v)>>)>>) : v \in JsonLeaves }
    \cup { JDict(<<Keyed("a", JList(<<v>>))>>) : v \in JsonLeaves }

\* type(right), as the messages print it
TypeName(value) == "<class '" \o value.t \o "'>"

\* str() of a leaf, as the messages print it
Repr(value) ==
    CASE value.t = "str" -> "\"" \o value.s \o "\""
      [] value.t = "bool" -> IF value.n = 0 THEN "False" ELSE "True"
      [] value.t = "NoneType" -> "None"
      [] OTHER -> ToString(value.n) \o "/10"

DiffReturn(diffs) == [raises |-> FALSE, diffs |-> diffs]
\* line 544
DiffRaise == [raises |-> TRUE, diffs |-> <<>>]

\* diffs.extend(...) of lines 490-493 and 507-511, an exception passing through
DiffExtend(diffs, more) ==
    IF diffs.raises \/ more.raises THEN DiffRaise ELSE DiffReturn(diffs.diffs \o more.diffs)

HasKey(value, k) == \E i \in 1..Len(value.items) : value.items[i].key = k
ValueAt(value, k) ==
    value.items[CHOOSE i \in 1..Len(value.items) : value.items[i].key = k]

IsInt(value) == value.t \in {"int", "bool"}
IsIntOrFloat(value) == value.t \in {"int", "bool", "float"}
fabs(x) == IF x < 0 THEN 0 - x ELSE x

RECURSIVE vrm_dict_diff(_, _, _, _)
RECURSIVE ListDiffs(_, _, _, _, _)
RECURSIVE DictDiffs(_, _, _, _, _)

\* lines 489-494: the loop over the indices of two lists of one length
ListDiffs(left, right, path, tolerance, i) ==
    IF i > Len(left.items) THEN DiffReturn(<<>>)
    ELSE LET here == vrm_dict_diff(left.items[i], right.items[i],
                                   path \o "[" \o ToString(i - 1) \o "]", tolerance)
         IN IF here.raises THEN DiffRaise
            ELSE DiffExtend(here, ListDiffs(left, right, path, tolerance, i + 1))

\* lines 499-512: the loop over the sorted union of the keys
DictDiffs(left, right, path, tolerance, i) ==
    IF i > Len(DictKeys) THEN DiffReturn(<<>>)
    ELSE LET k == DictKeys[i]
             here ==
                IF ~HasKey(left, k) /\ ~HasKey(right, k) THEN DiffReturn(<<>>)
                ELSE IF ~HasKey(left, k) THEN DiffReturn(<<path \o ": " \o k \o " not in left">>)
                ELSE IF ~HasKey(right, k) THEN DiffReturn(<<path \o ": " \o k \o " not in right">>)
                ELSE vrm_dict_diff(ValueAt(left, k), ValueAt(right, k),
                                   path \o "[\"" \o k \o "\"]", tolerance)
         IN IF here.raises THEN DiffRaise
            ELSE DiffExtend(here, DictDiffs(left, right, path, tolerance, i + 1))

\* lines 479-544
vrm_dict_diff(left, right, path, tolerance) ==
    IF left.t = "list"
    THEN IF right.t # "list"
         THEN DiffReturn(<<path \o ": left is list but right is " \o TypeName(right)>>)
         ELSE IF Len(left.items) # Len(right.items)
         THEN DiffReturn(<<path \o ": left length is " \o ToString(Len(left.items))
                             \o " but right length is " \o ToString(Len(right.items))>>)
         ELSE ListDiffs(left, right, path, tolerance, 1)
    ELSE IF left.t = "dict"
    THEN IF right.t # "dict"
         THEN DiffReturn(<<path \o ": left is dict but right is " \o TypeName(right)>>)
         ELSE DictDiffs(left, right, path, tolerance, 1)
    ELSE IF left.t = "bool"
    THEN IF right.t # "bool"
         THEN DiffReturn(<<path \o ": left is bool but right is " \o TypeName(right)>>)
         ELSE IF left.n # right.n
         THEN DiffReturn(<<path \o ": left is " \o Repr(left) \o " but right is " \o Repr(right)>>)
         ELSE DiffReturn(<<>>)
    ELSE IF left.t = "str"
    THEN IF right.t # "str"
         THEN DiffReturn(<<path \o ": left is str but right is " \o TypeName(right)>>)
         ELSE IF left.s # right.s
         THEN DiffReturn(<<path \o ": left is " \o Repr(left) \o " but right is " \o Repr(right)>>)
         ELSE DiffReturn(<<>>)
    ELSE IF left.t = "NoneType" /\ right.t # "NoneType"
    THEN DiffReturn(<<path \o ": left is None but right is " \o TypeName(right)>>)
    ELSE IF IsInt(left) /\ IsInt(right)
    THEN IF left.n # right.n
         THEN DiffReturn(<<path \o ": left is " \o Repr(left) \o " but right is " \o Repr(right)>>)
         ELSE DiffReturn(<<>>)
    ELSE IF IsIntOrFloat(left) /\ IsIntOrFloat(right)
    THEN IF fabs(left.n - right.n) > tolerance
         THEN DiffReturn(<<path \o ": left is " \o Repr(left) \o " but right is " \o Repr(right)>>)
         ELSE DiffReturn(<<>>)
    ELSE DiffRaise

NotCompared == [raises |-> FALSE, diffs |-> <<"not compared">>]

DiffIdle ==
    /\ left_dict = JNull /\ right_dict = JNull /\ float_tolerance = 0
    /\ dpc = "idle" /\ diff_result = NotCompared

\* the two values and the tolerance handed to vrm_dict_diff
DiffStart ==
    /\ left_dict \in JsonValues
    /\ right_dict \in JsonValues
    /\ float_tolerance \in {0, 5}
    /\ dpc = "call"
    /\ diff_result = NotCompared

\* lines 479-544, called as in line 547 with the empty path
VrmDictDiff ==
    /\ dpc = "call"
    /\ diff_result' = vrm_dict_diff(left_dict, right_dict, "", float_tolerance)
    /\ dpc' = "done"
    /\ UNCHANGED <<left_dict, right_dict, float_tolerance>>
    /\ UNCHANGED notDiffVars

DiffNext == VrmDictDiff

-----------------------------------------------------------------------------
(* skin_read (vrm_load.py) *)

MaxSkins == 3

\* the entries of json["skins"]: the joints, and the skeleton node if declared
SkinSet == [joints : { <<0>>, <<1, 2>> }, skeleton : { NoneInt, Some(0), Some(5) }]

\* json.get("skins"): absent, or a list of skins
SkinLists == {None} \cup { Some(skins) : skins \in SeqsUpTo(SkinSet, MaxSkins) }

SkinIdle ==
    /\ skins_json = None /\ skins_joints_list = <<>> /\ skins_root_node_list = <<>>
    /\ skin_i = 0 /\ spc = "idle"

\* line 452, over every generated document
SkinStart ==
    /\ skins_json \in SkinLists
    /\ skins_joints_list = <<>>
    /\ skins_root_node_list = <<>>
    /\ skin_i = 0
    /\ spc = "running"

\* line 453: vrm_pydata.json.get("skins", [])
json_skins == IF skins_json.some THEN skins_json.v ELSE <<>>

\* lines 453-456: one iteration of the loop over the skins
SkinRead ==
    /\ spc = "running"
    /\ skin_i < Len(json_skins)
    /\ LET skin == json_skins[skin_i + 1]
       IN /\ skins_joints_list' = Append(skins_joints_list, skin.joints)
          /\ skins_root_node_list' =
                IF skin.skeleton.some
                THEN Append(skins_root_node_list, skin.skeleton.v)
                ELSE skins_root_node_list
    /\ skin_i' = skin_i + 1
    /\ UNCHANGED <<skins_json, spc>>
    /\ UNCHANGED notSkinVars

\* the loop of line 453 is over
SkinReturn ==
    /\ spc = "running"
    /\ skin_i = Len(json_skins)
    /\ spc' = "done"
    /\ UNCHANGED <<skins_json, skins_joints_list, skins_root_node_list, skin_i>>
    /\ UNCHANGED notSkinVars

SkinNext == SkinRead \/ SkinReturn

-----------------------------------------------------------------------------
(* Specifications *)

GlbInit == GlbStart /\ DecIdle /\ LicIdle /\ ReadIdle /\ ImpIdle /\ MeshIdle /\ DiffIdle /\ SkinIdle

SpecGlb == GlbInit /\ [][GlbNext]_vars

DecInit == DecStart /\ GlbIdle /\ LicIdle /\ ReadIdle /\ ImpIdle /\ MeshIdle /\ DiffIdle /\ SkinIdle

SpecDecode == DecInit /\ [][DecNext]_vars

LicInit == LicStart /\ GlbIdle /\ DecIdle /\ ReadIdle /\ ImpIdle /\ MeshIdle /\ DiffIdle /\ SkinIdle

SpecLicense == LicInit /\ [][LicNext]_vars

\* read_vrm called on its own; validate_license runs inside it
ReadInit == ReadStart /\ LicNotCalled /\ GlbIdle /\ DecIdle /\ ImpIdle /\ MeshIdle /\ DiffIdle /\ SkinIdle

SpecRead == ReadInit /\ [][ReadNext \/ LicNext]_vars

\* the import operators; read_vrm and validate_license run inside them
ImportInit == ImportStart /\ LicNotCalled /\ GlbIdle /\ DecIdle /\ MeshIdle /\ DiffIdle /\ SkinIdle

SpecImport == ImportInit /\ [][ImportNext \/ ReadNext \/ LicNext]_vars

MeshInit == MeshStart /\ GlbIdle /\ DecIdle /\ LicIdle /\ ReadIdle /\ ImpIdle /\ DiffIdle /\ SkinIdle

SpecMesh == MeshInit /\ [][MeshNext]_vars

DiffInit == DiffStart /\ GlbIdle /\ DecIdle /\ LicIdle /\ ReadIdle /\ ImpIdle /\ MeshIdle /\ SkinIdle

SpecDiff == DiffInit /\ [][DiffNext]_vars

SkinInit ==
    SkinStart /\ GlbIdle /\ DecIdle /\ LicIdle /\ ReadIdle /\ ImpIdle /\ MeshIdle /\ DiffIdle

SpecSkin == SkinInit /\ [][SkinNext]_vars

-----------------------------------------------------------------------------
(* Claims about parse_glb *)

\* C1: a run that has read two JSON chunks, or two binary chunks, ends in a
\* fatal error; it never returns a document.
C1_DuplicateChunkFails ==
    (gpc = "done" /\ (ghist.nJson >= 2 \/ ghist.nBin >= 2)) => gresult.kind = "error"

\* C2: parse_glb returns a document only if the bytes its chunks consumed
\* (8 + chunk length, summed) equal the declared length minus the header.
C2_ConsumedEqualsDeclared ==
    gresult.kind = "ok" => ghist.consumed = ghist.declared - HEADER_SIZE

\* the JSON texts that hold an object, and the tree each stands for
ObjectTree(text) ==
    IF text = <<"{}  ">> THEN <<>> ELSE << <<"a", 1>> >>
IsObjectText(text) == text \in { <<"{}  ">>, <<"{\"a\"", ":1} ">> }

\* C3: when the chunk loop is over, a run that captured no JSON chunk ends in
\* the fatal "failed to read json chunk"; a run that captured a JSON object and
\* read no binary chunk returns that object's tree with an empty payload.
C3_JsonMandatoryBinOptional ==
    [][gpc = "finish" =>
          /\ (ghist.nJson = 0 => gresult' = Raise("failed to read json chunk"))
          /\ (ghist.nJson > 0 /\ IsObjectText(json_str.v) /\ ghist.nBin = 0
                 => gresult' = Return(ObjectTree(json_str.v), <<>>))]_vars

C3_Witness ==
    /\ gpc = "done" /\ gresult.kind = "ok"
    /\ ghist.nJson = 1 /\ ghist.nBin = 0 /\ gresult.json = << <<"a", 1>> >> /\ gresult.body = <<>>

\* the header as the file holds it
BadMagic == Len(data) >= 1 /\ data[1].s # "glTF"
BadVersion == Len(data) >= 2 /\ data[2].u # 2

\* C4: on a container with a wrong magic or a version other than 2 the declared
\* length is never read, no chunk is read, no JSON is parsed, and the run ends
\* in a fatal error.
C4_HeaderRejectedFirst ==
    (BadMagic \/ BadVersion) =>
        /\ ghist.declared = -1 /\ ghist.chunkReads = 0 /\ ~ghist.jsonParsed
        /\ pos <= 8 /\ ~json_str.some /\ ~body.some
        /\ (gpc = "done" => gresult.kind = "error")

C4_Witness ==
    gpc = "done" /\ ~BadMagic /\ BadVersion /\ gresult = Raise("version") /\ Len(data) > 3

-----------------------------------------------------------------------------
(* Claims about decode_bin *)

\* the arity the format gives each accessor type
Arity(type) ==
    CASE type = "SCALAR" -> 1 [] type = "VEC2" -> 2 [] type = "VEC3" -> 3
      [] type = "VEC4" -> 4 [] type = "MAT4" -> 16 [] OTHER -> 0

\* scalar number n (0-based) of the w-byte scalars packed from byte offset on
ScalarAt(offset, n, w) ==
    IF w = 1 THEN binary[offset + n + 1]
    ELSE binary[offset + 2 * n + 1] + 256 * binary[offset + 2 * n + 2]

\* what accessor number i (1-based) describes: count elements of Arity scalars
\* each, packed from the byte offset of its buffer view on
ExpectedArray(i) ==
    LET accessor == accessors[i]
        offset == buffer_views[accessor.bufferView + 1].byteOffset
        arity == Arity(accessor.type)
    IN [k \in 1..accessor.count |->
           [scalar |-> accessor.type = "SCALAR",
            v |-> [j \in 1..arity |->
                     ScalarAt(offset, (k - 1) * arity + (j - 1),
                              ComponentWidth(accessor.componentType))]]]

\* C5: when decode_bin succeeds, its list has one entry per accessor, and the
\* entry of every accessor with a bufferView holds count elements, each one
\* scalar (SCALAR) or a group of arity scalars, read from that accessor's data.
C5_OneArrayPerAccessor ==
    dresult = "ok" =>
        /\ Len(decoded_binary) = Len(accessors)
        /\ \A i \in 1..Len(accessors) :
              HasBufferView(accessors[i]) =>
                 /\ Len(decoded_binary[i]) = accessors[i].count
                 /\ \A k \in 1..accessors[i].count :
                       /\ decoded_binary[i][k].scalar = (accessors[i].type = "SCALAR")
                       /\ Len(decoded_binary[i][k].v) = Arity(accessors[i].type)
                 /\ decoded_binary[i] = ExpectedArray(i)

C5_Witness ==
    /\ dresult = "ok" /\ Len(accessors) = 2
    /\ accessors[1].type = "MAT4" /\ accessors[1].count = 2 /\ accessors[1].bufferView = 1
    /\ accessors[2].type = "SCALAR" /\ accessors[2].count = 2 /\ accessors[2].bufferView = 0
    /\ Len(decoded_binary[1][2].v) = 16 /\ decoded_binary[1][2].v[16] = ByteAt(34)
    /\ decoded_binary[2] = <<[scalar |-> TRUE, v |-> <<ByteAt(0)>>], [scalar |-> TRUE, v |-> <<ByteAt(1)>>]>>

IsPlaceholder(accessor) == ~HasBufferView(accessor) /\ Arity(accessor.type) > 0

\* C6: the iteration over an accessor of a known type without bufferView appends
\* an empty array, leaves the reader where it is and raises nothing; in the
\* returned list the placeholder's own entry is empty and every later accessor
\* with a bufferView has, at its own index, the array it describes.
C6_PlaceholderIsEmpty ==
    /\ [][(dresult = "running" /\ accessor_index < Len(accessors)
             /\ IsPlaceholder(accessors[accessor_index + 1]))
          => /\ decoded_binary' = Append(decoded_binary, <<>>)
             /\ Len(decoded_binary') = accessor_index'
             /\ br_pos' = br_pos
             /\ dresult' = "running"]_vars
    /\ [](dresult = "ok" =>
            \A i \in 1..Len(accessors) :
               IsPlaceholder(accessors[i]) =>
                  /\ decoded_binary[i] = <<>>
                  /\ \A j \in (i + 1)..Len(accessors) :
                        HasBufferView(accessors[j]) => decoded_binary[j] = ExpectedArray(j))

C6_Witness ==
    /\ dresult = "ok" /\ Len(accessors) = 2
    /\ IsPlaceholder(accessors[1]) /\ accessors[1].count = 2
    /\ HasBufferView(accessors[2]) /\ accessors[2].count = 2 /\ accessors[2].type = "VEC2"
    /\ accessors[2].componentType = UNSIGNED_SHORT /\ accessors[2].bufferView = 1
    /\ decoded_binary[1] = <<>> /\ Len(decoded_binary[2]) = 2
    /\ decoded_binary[2][1].v = <<ByteAt(3) + 256 * ByteAt(4), ByteAt(5) + 256 * ByteAt(6)>>

-----------------------------------------------------------------------------
(* Claims about the license gate *)

\* the record of check number n of the run
Check(n) == lhist.checks[n]
\* every item the checks found, in the order of the checks
FoundItems ==
    IF Len(lhist.checks) < 3 THEN <<>>
    ELSE Check(1).items \o Check(2).items \o Check(3).items

\* C7: validate_license raises LicenseConfirmationRequired exactly when the
\* list of confirmations is not empty, at most once and only after the three
\* checks (licenseName, otherPermissionUrl, otherLicenseUrl) were evaluated in
\* that order; the condition carries every item found, in that order; with an
\* empty list the call returns normally.
C7_SignalsOnceWithAllItems ==
    /\ lhist.signals <= 1
    /\ (lresult.kind = "LicenseConfirmationRequired" \/ lhist.signals = 1) =>
          /\ lpc = "done" /\ lhist.signals = 1
          /\ [n \in 1..Len(lhist.checks) |-> Check(n).key]
                = <<"licenseName", "otherPermissionUrl", "otherLicenseUrl">>
          /\ lresult.props = FoundItems
    /\ lpc = "done" =>
          /\ (lresult.kind = "LicenseConfirmationRequired") = (confirmations # <<>>)
          /\ (lresult.kind = "LicenseConfirmationRequired") = (FoundItems # <<>>)
          /\ (confirmations = <<>>) = (lresult = Returned)

C7_Witness ==
    /\ lpc = "done" /\ lresult.kind = "LicenseConfirmationRequired"
    /\ Len(lresult.props) = 2
    /\ lresult.props[1].message = "No derivative works are allowed"
    /\ lresult.props[2].json_key = SomeStr("otherPermissionUrl")

\* a name of the no-derivatives family: it begins with CC and ND follows on the
\* same line
HasCCND(s) ==
    /\ Len(s) >= 4 /\ s[1] = "C" /\ s[2] = "C"
    /\ \E i \in 3..(Len(s) - 1) :
          s[i] = "N" /\ s[i + 1] = "D" /\ \A k \in 3..(i - 1) : s[k] # "\n"

NoDerivativesItem == Prop(NoneStr, NoneStr, "No derivative works are allowed")

\* C8 as stated: a license name of the CC...ND family, compared without regard
\* to case, gets exactly one item without URL from the license-name check, and
\* any other name gets none.
C8_NameCheckIgnoresCase ==
    Len(lhist.checks) >= 1 =>
        Check(1).items = IF HasCCND(UpperCase(license_name)) THEN <<NoDerivativesItem>> ELSE <<>>

\* C8 as amended: a license name of the CC...ND family, compared with regard to
\* case, gets exactly one item without URL from the license-name check, and
\* any other name (cc-by-nd, Cc_By_Nc_Nd among them) gets none.
C8_NameCheckIsCaseSensitive ==
    Len(lhist.checks) >= 1 =>
        Check(1).items = IF HasCCND(license_name) THEN <<NoDerivativesItem>> ELSE <<>>

C8_Witness ==
    /\ Len(lhist.checks) >= 1
    /\ license_name = <<"C", "C", "-", "B", "Y", "-", "N", "D">>
    /\ Check(1).items = <<NoDerivativesItem>> /\ confirmations = <<NoDerivativesItem>>

\* the URLs of the two known providers, by whether the provider's flag is set
VroidHubFlagged ==
    { "https://hub.vroid.com/en/license?modification=disallow",
      "https://HUB.VROID.COM/license?modification=disallow" }
VroidHubUnflagged ==
    { "https://hub.vroid.com/en/license?modification=allow&remarks=true",
      "https://hub.vroid.com/en/license" }
UniVirtualFlagged == { "https://uv-license.com/en/license?remarks=true" }
UniVirtualUnflagged ==
    { "https://uv-license.com/en/license?pcu=true&modification=disallow",
      "https://uv-license.com/en/license?remarks=false" }
\* the non-empty strings that are no page of a known provider
CustomUrls ==
    { "https://hub.vroid.com/en/licenses?modification=disallow",
      "https://example.com/license?modification=disallow&remarks=true",
      "http://[::1",
      "CC BY 4.0" }

\* the checks of the run that went through validate_license_url, and the URL
\* string each was given
UrlChecks ==
    {n \in 1..Len(lhist.checks) :
        /\ Check(n).key \in {"otherPermissionUrl", "otherLicenseUrl"}
        /\ Check(n).examined
        /\ (Check(n).key = "otherLicenseUrl" => json_get(meta.otherLicenseUrl, "") # "")}
UrlOf(n) == json_get(meta[Check(n).key], "")

\* C9: for a URL of a known provider the URL check appends exactly one item,
\* the provider's, when the provider's flag is set, and nothing otherwise; the
\* flag of the other provider changes nothing, the check of uv-license.com is
\* not called for a hub.vroid.com page, and the generic item is never appended.
C9_KnownProviderDecides ==
    \A n \in UrlChecks :
        /\ UrlOf(n) \in VroidHubFlagged =>
              /\ Len(Check(n).items) = 1
              /\ Check(n).items[1].message = "VRoid Hub Alterations: No"
              /\ Check(n).items[1].json_key = SomeStr(Check(n).key)
        /\ UrlOf(n) \in VroidHubUnflagged => Check(n).items = <<>>
        /\ UrlOf(n) \in VroidHubFlagged \cup VroidHubUnflagged => Check(n).calls = <<"vroid_hub">>
        /\ UrlOf(n) \in UniVirtualFlagged =>
              /\ Len(Check(n).items) = 1
              /\ Check(n).items[1].message = "UV License with Remarks"
              /\ Check(n).items[1].json_key = SomeStr(Check(n).key)
        /\ UrlOf(n) \in UniVirtualUnflagged => Check(n).items = <<>>

C9_Witness ==
    /\ lpc = "done" /\ UrlChecks = {2, 3}
    /\ UrlOf(2) = "https://uv-license.com/en/license?pcu=true&modification=disallow"
    /\ UrlOf(3) = "https://hub.vroid.com/en/license?modification=disallow"
    /\ Len(lresult.props) = 1 /\ lresult.props[1].message = "VRoid Hub Alterations: No"

\* C10: for a non-empty URL string that does not parse or is no page of a known
\* provider, the URL check appends exactly one generic item carrying that
\* string and the key of the field it came from; for the empty string it
\* appends nothing.
C10_CustomUrlGetsGenericItem ==
    \A n \in UrlChecks :
        /\ UrlOf(n) \in CustomUrls =>
              Check(n).items = <<Prop(SomeStr(UrlOf(n)), SomeStr(Check(n).key),
                                      "check its copyright license")>>
        /\ UrlOf(n) = "" => Check(n).items = <<>>

C10_Witness ==
    /\ lpc = "done" /\ UrlChecks = {2, 3}
    /\ UrlOf(2) = "http://[::1" /\ UrlOf(3) = "CC BY 4.0"
    /\ lresult.props = <<Prop(SomeStr("http://[::1"), SomeStr("otherPermissionUrl"), "check its copyright license"),
                         Prop(SomeStr("CC BY 4.0"), SomeStr("otherLicenseUrl"), "check its copyright license")>>

\* what the URL-validation procedure adds for URL string u found under key
ExpectedUrlItems(u, key, items) ==
    /\ u \in VroidHubFlagged =>
          Len(items) = 1 /\ items[1].message = "VRoid Hub Alterations: No"
                         /\ items[1].json_key = SomeStr(key)
    /\ u \in UniVirtualFlagged =>
          Len(items) = 1 /\ items[1].message = "UV License with Remarks"
                         /\ items[1].json_key = SomeStr(key)
    /\ u \in VroidHubUnflagged \cup UniVirtualUnflagged => items = <<>>
    /\ u \in CustomUrls =>
          items = <<Prop(SomeStr(u), SomeStr(key), "check its copyright license")>>

\* C11: when the license name is exactly "Other", an empty otherLicenseUrl adds
\* the one item that demands a URL and a non-empty one adds what the URL
\* validation adds for it (what it adds for the same string under
\* otherPermissionUrl, but for the key); for any other license name the field
\* adds nothing, whatever it holds.
C11_OtherLicenseUrlOnlyForOther ==
    Len(lhist.checks) >= 3 =>
        LET u == IF meta.otherLicenseUrl.some THEN meta.otherLicenseUrl.v ELSE ""
            p == IF meta.otherPermissionUrl.some THEN meta.otherPermissionUrl.v ELSE ""
        IN IF meta.licenseName.some /\ meta.licenseName.v = <<"O", "t", "h", "e", "r">>
           THEN /\ Check(3).examined
                /\ u = "" => Check(3).items =
                                <<Prop(NoneStr, NoneStr, "Other license but no license url")>>
                /\ u # "" => ExpectedUrlItems(u, "otherLicenseUrl", Check(3).items)
                /\ (u # "" /\ u = p) =>
                      Check(3).items =
                         [i \in 1..Len(Check(2).items) |->
                             [Check(2).items[i] EXCEPT !.json_key = SomeStr("otherLicenseUrl")]]
           ELSE Check(3).items = <<>> /\ ~Check(3).examined

C11_Witness ==
    /\ lpc = "done"
    /\ license_name = <<"O", "t", "h", "e", "r">>
    /\ meta.otherLicenseUrl = SomeStr("https://hub.vroid.com/en/license?modification=allow&remarks=true")
    /\ meta.otherPermissionUrl = SomeStr("")
    /\ Check(3).examined /\ Check(3).items = <<>> /\ lresult = Returned

\* the array described by one accessor, as a function of that accessor, the
\* buffer views and the payload alone: neither the other accessors nor the
\* reader's position occur in it
ArrayOf(accessor, views, payload) ==
    LET offset == views[accessor.bufferView + 1].byteOffset
        arity == Arity(accessor.type)
        w == ComponentWidth(accessor.componentType)
        scalar(n) == IF w = 1 THEN payload[offset + n + 1]
                     ELSE payload[offset + 2 * n + 1] + 256 * payload[offset + 2 * n + 2]
    IN [k \in 1..accessor.count |->
           [scalar |-> accessor.type = "SCALAR",
            v |-> [j \in 1..arity |-> scalar((k - 1) * arity + (j - 1))]]]

\* C20: the array decoded for an accessor with a bufferView depends on that
\* accessor, its buffer view and the payload only, whatever the other accessors
\* of the document are and wherever they left the reader: every decoding step
\* appends that array and ends at a position fixed by the accessor alone.
C20_ArrayDependsOnOwnAccessorOnly ==
    /\ [][(dresult = "running" /\ accessor_index < Len(accessors)
             /\ HasBufferView(accessors[accessor_index + 1])
             /\ dresult' = "running")
          => LET accessor == accessors[accessor_index + 1]
             IN /\ decoded_binary' =
                      Append(decoded_binary, ArrayOf(accessor, buffer_views, binary))
                /\ br_pos' = buffer_views[accessor.bufferView + 1].byteOffset
                             + accessor.count * Arity(accessor.type)
                               * ComponentWidth(accessor.componentType)]_vars
    /\ [](\A i \in 1..Len(decoded_binary) :
             HasBufferView(accessors[i]) =>
                decoded_binary[i] = ArrayOf(accessors[i], buffer_views, binary))

\* the second accessor is decoded from a view that starts before the place where
\* the first one left the reader
C20_Witness ==
    /\ dresult = "ok" /\ Len(accessors) = 2
    /\ accessors[1].bufferView = 1 /\ accessors[1].count = 2 /\ accessors[1].type = "VEC3"
    /\ accessors[2].bufferView = 0 /\ accessors[2].count = 2 /\ accessors[2].type = "VEC2"
    /\ accessors[1].componentType = UNSIGNED_SHORT
    /\ br_pos = 8
    /\ decoded_binary[2][1].v = <<ByteAt(0) + 256 * ByteAt(1), ByteAt(2) + 256 * ByteAt(3)>>

-----------------------------------------------------------------------------
(* Claims about read_vrm, material_read and the import operators *)

\* the document lists the Draco extension among those it requires
RequiresDraco ==
    /\ model_file.parsed
    /\ model_file.json.extensionsRequired.some
    /\ \E i \in 1..Len(model_file.json.extensionsRequired.v) :
          model_file.json.extensionsRequired.v[i] = DRACO

\* how read_vrm ends on the file when no license gate stands in the way
UngatedOutcome ==
    IF ~model_file.parsed THEN <<ReadRaise("parse_glb"), NoPydata>>
    ELSE IF RequiresDraco THEN <<ReadRaise("Draco"), [created |-> TRUE, materials |-> <<>>]>>
    ELSE <<ReadReturned,
           [created |-> TRUE, materials |-> material_read(model_file.json, <<>>)]>>

\* C12: read_vrm called with license_check disabled never evaluates the license
\* metadata and never signals LicenseConfirmationRequired, whatever the meta
\* block holds; it ends as a read with checking enabled ends when the gate
\* raises nothing.
C12_UncheckedReadNeverSignals ==
    /\ ~license_check =>
          /\ rresult.kind # "LicenseConfirmationRequired"
          /\ lhist = NoLicenseHist /\ lpc = "idle"
    /\ (rpc = "done" /\ rresult.kind # "LicenseConfirmationRequired") =>
          <<rresult, vrm_pydata>> = UngatedOutcome

C12_Witness ==
    /\ rpc = "done" /\ ~license_check /\ rresult = ReadReturned
    /\ meta.licenseName = Some(<<"C", "C", "_", "B", "Y", "_", "N", "D">>)
    /\ meta.otherPermissionUrl = SomeStr("CC BY 4.0")
    /\ Len(vrm_pydata.materials) = 2

\* C19: for a document that lists KHR_DRACO_MESH_COMPRESSION in
\* extensionsRequired, read_vrm ends in the fatal Draco error; it never
\* evaluates the license metadata, never signals LicenseConfirmationRequired and
\* never reaches material_read, with license_check enabled or not.
C19_DracoRejectedBeforeLicense ==
    RequiresDraco =>
        /\ rresult.kind \in {"none", "error"}
        /\ rpc = "done" => rresult = ReadRaise("Draco")
        /\ rpc \in {"parse_glb", "draco", "done"}
        /\ lhist = NoLicenseHist /\ lpc = "idle"
        /\ \A i \in 1..Len(rhist) : rhist[i] \in {"parse_glb", "draco"}
        /\ vrm_pydata.materials = <<>>

C19_Witness ==
    /\ rpc = "done" /\ license_check /\ rresult = ReadRaise("Draco")
    /\ model_file.json.extensionsRequired = Some(<<"KHR_texture_transform", DRACO>>)
    /\ meta.licenseName = Some(<<"C", "C", "_", "B", "Y", "_", "N", "D">>)
    /\ model_file.json.materials.some /\ Len(model_file.json.materials.v) = 2

IsWellFormed(mat) == mat.well_formed

\* every JSON material the factory can build from, with the passthrough shader
DefaultedMaterials ==
    LET json_materials == IF model_file.json.materials.some
                          THEN SelectSeq(model_file.json.materials.v, IsWellFormed)
                          ELSE <<>>
    IN [i \in 1..Len(json_materials) |->
           [name |-> json_materials[i].name, shader |-> "VRM_USE_GLTFSHADER"]]

\* C17: when materialProperties is absent, or is not a list, material_read
\* pairs every JSON material with {"shader": "VRM_USE_GLTFSHADER"} and builds a
\* descriptor from each one, skipping only the materials the factory yields
\* nothing for.
C17_DefaultsWhenAbsentOrMalformed ==
    (/\ rresult = ReadReturned
     /\ \/ ~model_file.json.materialProperties.some
        \/ ~model_file.json.materialProperties.v.is_list)
    => vrm_pydata.materials = DefaultedMaterials

\* C13: ImportVRM.execute reads with license checking enabled first; a model
\* is built from a document that required confirmation only after the
\* confirmation step ran with import_anyway true, set by the user or by the
\* environment variable being exactly "true"; with import_anyway false the
\* confirmation step returns CANCELLED, reads no file and builds no model.
C13_ImportConfirmationFlow ==
    /\ [][ipc = "execute" => (license_check' = TRUE /\ rpc' = "parse_glb")]_vars
    /\ [][(ipc = "confirmation_execute" /\ ~import_anyway)
            => (iresult' = "CANCELLED" /\ ipc' = "done" /\ rdVars' = rdVars
                /\ ihist'.built = ihist.built /\ ihist'.reads = ihist.reads)]_vars
    /\ [](ihist.reads # <<>> => Head(ihist.reads) = TRUE)
    /\ []((ihist.built > 0 /\ ihist.first = "LicenseConfirmationRequired") =>
             /\ ihist.executed /\ ihist.anyway
             /\ ihist.reads = <<TRUE, FALSE>>
             /\ \/ ihist.by = "user"
                \/ ihist.by = "environment" /\ environ = SomeStr("true"))
    /\ []((ihist.executed /\ ~ihist.anyway) =>
             /\ iresult = "CANCELLED"
             /\ ihist.reads = <<TRUE>> /\ ihist.built = 0
             /\ license_check = TRUE)

C13_Witness ==
    /\ ipc = "done" /\ iresult = "FINISHED"
    /\ ihist.first = "LicenseConfirmationRequired"
    /\ ihist.by = "environment" /\ execution_context = "EXEC_DEFAULT"
    /\ ihist.reads = <<TRUE, FALSE>> /\ ihist.built = 1
    /\ Len(vrm_pydata.materials) = 2

\* the user left "Import anyway" unticked and pressed OK
C13_WitnessCancelled ==
    /\ ipc = "done" /\ iresult = "CANCELLED"
    /\ ihist.executed /\ ~ihist.anyway /\ ihist.by = "user"
    /\ environ = SomeStr("TRUE")

-----------------------------------------------------------------------------
(* Claims about mesh_read *)

UniGLTF_1_10 == <<"U", "n", "i", "G", "L", "T", "F", "-", "1", ".", "1", "0">>

\* the generator tag mesh_read finds is a legacy producer below 1.16; of the
\* generated strings only UniGLTF-1.10 is one
LegacyProducer ==
    mesh_json.generator_key = "assets" /\ mesh_json.generator = Some(UniGLTF_1_10)

\* the generator tag mesh_read finds is some other string, or none
NonLegacyProducer ==
    mesh_json.generator_key = "assets" /\ mesh_json.generator # Some(UniGLTF_1_10)

\* the UV array a primitive of the result holds under a TEXCOORD name: the
\* array object of decoded_binary it was attached from
TexcoordOf(vrm_mesh, name) == pydata_decoded_binary[vrm_mesh.attributes[name].v + 1]

\* the array of the accessor as it was decoded, every v moved by shift
Shifted(accessor, shift) ==
    [k \in 1..Len(DecodedArrays[accessor + 1]) |->
        <<DecodedArrays[accessor + 1][k][1], shift + DecodedArrays[accessor + 1][k][2]>>]

\* C14: after mesh_read on a document of a legacy producer below 1.16, every UV
\* of every TEXCOORD_n of every primitive has v = 1 + its decoded value, also
\* when primitives or TEXCOORD sets share an accessor; for any other generator
\* every UV has its decoded value.
C14_LegacyFixOncePerUV ==
    mresult.kind = "ok" =>
        \A n \in 1..Len(pydata_meshes) : \A j \in 1..Len(pydata_meshes[n]) :
            \A name \in {"TEXCOORD_0", "TEXCOORD_1"} :
                LET vrm_mesh == pydata_meshes[n][j]
                IN vrm_mesh.attributes[name].some =>
                      /\ LegacyProducer =>
                            TexcoordOf(vrm_mesh, name) = Shifted(vrm_mesh.attributes[name].v, 1)
                      /\ NonLegacyProducer =>
                            TexcoordOf(vrm_mesh, name) = Shifted(vrm_mesh.attributes[name].v, 0)

\* the primitive the loop is at
CurrentPrimitive == mesh_json.meshes[mesh_n + 1][prim_j + 1]
AtPrimitive ==
    /\ mresult.kind = "running"
    /\ mesh_n < Len(mesh_json.meshes)
    /\ prim_j < Len(mesh_json.meshes[mesh_n + 1])

\* C15: at a primitive whose mode is present and is not the triangle list,
\* mesh_read raises at that primitive with no index accessor resolved, no
\* attribute attached and no UV rewritten for it; a primitive without mode is
\* taken for a triangle list: its indices are resolved and it is kept.
C15_NonTriangleFailsFirst ==
    /\ [][(AtPrimitive /\ CurrentPrimitive.mode.some /\ CurrentPrimitive.mode.v # TRIANGLES)
            => /\ mresult' = MeshRaise(mesh_n, prim_j)
               /\ mhist' = mhist
               /\ mesh_primitives' = mesh_primitives
               /\ pydata_decoded_binary' = pydata_decoded_binary]_vars
    /\ [][(AtPrimitive /\ ~CurrentPrimitive.mode.some)
            => /\ mresult' = mresult
               /\ mhist'.resolved = Append(mhist.resolved, <<mesh_n, prim_j>>)
               /\ Len(mesh_primitives') = Len(mesh_primitives) + 1
               /\ mesh_primitives'[Len(mesh_primitives')].face_indices =
                     << <<0, 1, 2>>, <<2, 1, 3>> >>]_vars
    /\ [](mresult.kind = "Unsupported polygon type" =>
             /\ mesh_json.meshes[mresult.mesh + 1][mresult.primitive + 1].mode.some
             /\ \A i \in 1..Len(mhist.resolved) :
                   mhist.resolved[i] # <<mresult.mesh, mresult.primitive>>)

C15_Witness ==
    /\ mresult = MeshRaise(1, 1)
    /\ Len(mesh_json.meshes[1]) = 1
    /\ mesh_json.meshes[1][1].mode = NoneInt
    /\ mesh_json.meshes[2][1].mode = Some(TRIANGLES)
    /\ mesh_json.meshes[2][2].mode = Some(POINTS)
    /\ mhist.resolved = << <<0, 0>>, <<1, 0>> >>

\* C16: when mesh_read raises at some primitive, the document handed to it has
\* no mesh added by the call and none of its decoded arrays changed by it.
C16_FailureLeavesDocumentUntouched ==
    mresult.kind = "Unsupported polygon type" =>
        /\ pydata_meshes = <<>>
        /\ pydata_decoded_binary = DecodedArrays

-----------------------------------------------------------------------------
(* Claims about vrm_dict_diff *)

\* the JSON type of a value: integers and floats are both numbers
JsonType(value) == IF value.t \in {"int", "float"} THEN "number" ELSE value.t
IsLeaf(value) == value.t \notin {"list", "dict"}

\* some pair of corresponding leaves of the two values differs in type: the
\* values themselves, or elements at one index of lists of one length, or
\* values under one key of two dicts
RECURSIVE LeafTypesDiffer(_, _)
LeafTypesDiffer(a, b) ==
    IF IsLeaf(a) /\ IsLeaf(b) THEN JsonType(a) # JsonType(b)
    ELSE IF a.t = "list" /\ b.t = "list" /\ Len(a.items) = Len(b.items)
    THEN \E i \in 1..Len(a.items) : LeafTypesDiffer(a.items[i], b.items[i])
    ELSE IF a.t = "dict" /\ b.t = "dict"
    THEN \E i \in 1..Len(a.items) : \E j \in 1..Len(b.items) :
            a.items[i].key = b.items[j].key /\ LeafTypesDiffer(a.items[i], b.items[j])
    ELSE FALSE

\* C18: on two values with a pair of corresponding leaves of different types,
\* vrm_dict_diff returns a list that holds a difference; it neither raises nor
\* returns the empty list, whichever of the two values is given first.
C18_TypeMismatchIsReported ==
    (dpc = "done" /\ LeafTypesDiffer(left_dict, right_dict)) =>
        ~diff_result.raises /\ diff_result.diffs # <<>>

\* C21: vrm_dict_diff is reflexive: called on a value and the same value, with
\* any tolerance, it returns normally and returns the empty list, also for
\* values that hold null leaves.
C21_DiffIsReflexive ==
    (dpc = "done" /\ left_dict = right_dict) =>
        ~diff_result.raises /\ diff_result.diffs = <<>>

\* C22: the verdict of vrm_dict_diff does not depend on the order of its
\* arguments: it raises on (a, b) exactly if it raises on (b, a), and when it
\* raises on neither, the list for (a, b) is empty exactly if the list for
\* (b, a) is.
C22_DiffVerdictIsSymmetric ==
    dpc = "done" =>
        LET swapped == vrm_dict_diff(right_dict, left_dict, "", float_tolerance)
        IN /\ diff_result.raises <=> swapped.raises
           /\ (~diff_result.raises /\ ~swapped.raises) =>
                 ((diff_result.diffs = <<>>) <=> (swapped.diffs = <<>>))

\* C23: after material_read on a document whose materialProperties is a list,
\* of any length, vrm_pydata.materials has one descriptor per JSON material and
\* the descriptor at position k was built from JSON material k, so that a
\* primitive's material_index selects the descriptor of the material it names.
C23_MaterialsIndexAligned ==
    (/\ rresult = ReadReturned
     /\ model_file.json.materialProperties.some
     /\ model_file.json.materialProperties.v.is_list)
    => LET json_materials == IF model_file.json.materials.some
                             THEN model_file.json.materials.v ELSE <<>>
       IN /\ Len(vrm_pydata.materials) = Len(json_materials)
          /\ \A k \in 1..Len(json_materials) :
                vrm_pydata.materials[k].name = json_materials[k].name

-----------------------------------------------------------------------------
(* Claims about skin_read *)

\* C24: after skin_read the joints list has one entry per skin, in skin order,
\* and the root-node list is aligned with it: for every skin k that declares a
\* skeleton, skins_root_node_list[k] is that node, whatever skins with and
\* without a skeleton come before it.
C24_RootNodesAlignedWithSkins ==
    spc = "done" =>
        /\ Len(skins_joints_list) = Len(json_skins)
        /\ \A k \in 1..Len(json_skins) :
              /\ skins_joints_list[k] = json_skins[k].joints
              /\ json_skins[k].skeleton.some =>
                    /\ k <= Len(skins_root_node_list)
                    /\ skins_root_node_list[k] = json_skins[k].skeleton.v

====
